---- MODULE Spec2Model ----
(***************************************************************************)
(* A model of the customer-support workflow: the dispatch graph of         *)
(* agent_src/graph.py driven by the chat endpoint of main.py, the          *)
(* knowledge retrieval of the knowledge step and of retrieve_support_docs, *)
(* and the database tools of agent_src/tools.py.                           *)
(*                                                                         *)
(* Text is a sequence of one-character strings, so that strip(), lower()   *)
(* and substring tests are computed.  A fixed message of the program is a  *)
(* one-element text holding the name of that message.  A value that may be *)
(* None/NULL is <<>> (Null) or <<v>> (Some(v)).                            *)
(***************************************************************************)
EXTENDS Integers, Sequences, FiniteSets, TLC

VARIABLES
    routing_decision,   \* graph.py:66, the process-wide _routing_decision
    pc,                 \* per request: the node (or endpoint stage) about to run
    messages,           \* per request: state["messages"]
    entry,              \* per request: "chat" (main.py) or "graph" (graph.invoke called directly)
    result,             \* per request: what the caller got back
    initial,            \* per request: the conversation the graph was invoked with
    raw,                \* per request: the classifier model's raw output, Null when no call was made
    classified,         \* per request: the decision this request's classifier step assigned
    runs,               \* per request: how many times the classifier step ran
    entered,            \* per request: the handler nodes entered
    failed,             \* per request: the external call that failed, "none" otherwise
    rounds,             \* per request: tool-execution rounds
    calls,              \* per request: the kinds of external call made
    llm_calls,          \* per request: how many times llm.invoke was called
    store,              \* the relational store (owned outside the program)
    tool_call,          \* the tool invocation last made: tool, arguments, clock reading
    tool_result,        \* the dict that invocation returned
    queries,            \* the store queries that invocation issued, each with its outcome
    kb,                 \* the vector index: the chunks in storage order
    rag_op,             \* the retrieval last run: "rag_agent" or "retrieve_support_docs"
    hits,               \* what similarity_search returned to it
    rag_out,            \* what it built: the context string, or the chunk list
    conn_pc,            \* a tool invocation, step by step: where it stands
    conn_tool,          \* the tool invoked
    conn_query,         \* how many of its store queries it has started
    conn_open,          \* the store connections it holds open
    conn_log,           \* the connections it opened and closed, in order
    conn_row            \* what its last query gave: "row", "no_row", "error"

graphVars == <<routing_decision, pc, messages, entry, result, initial, raw,
               classified, runs, entered, failed, rounds, calls, llm_calls>>

toolVars == <<store, tool_call, tool_result, queries>>

ragVars == <<kb, rag_op, hits, rag_out>>

connVars == <<conn_pc, conn_tool, conn_query, conn_open, conn_log, conn_row>>

vars == <<graphVars, toolVars, ragVars, connVars>>

\* ---------------------------------------------------------------- bounds

NumRequests == 2
MaxUtterances == 1
MaxToolCalls == 2

Requests == 1..NumRequests

\* ------------------------------------------------------------------ text

Null == <<>>
Some(v) == <<v>>

UpperSeq == <<"A","B","C","D","E","F","G","H","I","J","K","L","M",
              "N","O","P","Q","R","S","T","U","V","W","X","Y","Z">>
LowerSeq == <<"a","b","c","d","e","f","g","h","i","j","k","l","m",
              "n","o","p","q","r","s","t","u","v","w","x","y","z">>

LowerChar(c) ==
    IF \E i \in 1..Len(UpperSeq) : UpperSeq[i] = c
    THEN LowerSeq[CHOOSE i \in 1..Len(UpperSeq) : UpperSeq[i] = c]
    ELSE c

\* str.lower()
StrLower(s) == [i \in 1..Len(s) |-> LowerChar(s[i])]

Whitespace == {" ", "\n", "\t"}

RECURSIVE LStrip(_)
LStrip(s) == IF s # <<>> /\ Head(s) \in Whitespace THEN LStrip(Tail(s)) ELSE s

RECURSIVE RStrip(_)
RStrip(s) ==
    IF s # <<>> /\ s[Len(s)] \in Whitespace
    THEN RStrip(SubSeq(s, 1, Len(s) - 1))
    ELSE s

\* str.strip()
StrStrip(s) == RStrip(LStrip(s))

\* `needle in haystack` on str
Contains(haystack, needle) ==
    \E i \in 0..(Len(haystack) - Len(needle)) :
        SubSeq(haystack, i + 1, i + Len(needle)) = needle

\* -------------------------------------------------------------- messages

HumanMessage(text) == [type |-> "human", content |-> text, tool_calls |-> <<>>]
AIMessage(text, tcs) == [type |-> "ai", content |-> text, tool_calls |-> tcs]
ToolMessage(name) == [type |-> "tool", content |-> <<"tool result of ", name>>, tool_calls |-> <<>>]

Last(s) == s[Len(s)]

RECURSIVE GetLastHumanFrom(_, _)
GetLastHumanFrom(msgs, i) ==
    IF i = 0 THEN <<>>
    ELSE IF msgs[i].type = "human" THEN msgs[i].content
    ELSE GetLastHumanFrom(msgs, i - 1)

\* graph.py get_last_human_message: the content of the latest human turn, "" when there is none
get_last_human_message(msgs) == GetLastHumanFrom(msgs, Len(msgs))

\* ---------------------------------------------------------------- labels

L_rag == <<"r","a","g">>
L_tools == <<"t","o","o","l","s">>
L_general == <<"g","e","n","e","r","a","l">>
L_cannot_help == <<"c","a","n","n","o","t","_","h","e","l","p">>

Labels == {L_rag, L_tools, L_general, L_cannot_help}

Handlers == {"rag_agent", "react_tool_agent", "general_response", "cannot_help"}

RouteMapGeneralToTools(label) ==
    CASE label = L_rag -> "rag_agent"
      [] label = L_tools -> "react_tool_agent"
      [] label = L_general -> "react_tool_agent"
      [] label = L_cannot_help -> "cannot_help"

\* the mapping of add_conditional_edges("unified_intent_classifier", ...)
RouteMap(label) ==
    CASE label = L_rag -> "rag_agent"
      [] label = L_tools -> "react_tool_agent"
      [] label = L_general -> "general_response"
      [] label = L_cannot_help -> "cannot_help"

\* ------------------------------------------------------------ the inputs

U_hi == <<"H","i">>
U_order == <<"o","r","d","e","r","?">>
Utterances == {<<>>, U_hi, U_order}


\* utterances for the conversational step: matching no keyword group, one
\* group, or several (in either order of appearance), in either letter case
GeneralUtterances ==
    { <<>>, U_hi, U_order,
      <<"t","h","i","s">>,    \* "this": holds "hi"
      <<"H","E","L","P">>,    \* "HELP"
      <<"t","h","a","n","k","s",","," ","h","e","l","p">>,    \* "thanks, help"
      <<"T","e","l","l"," ","m","e",","," ","t","h","a","n","k","s">>,    \* "Tell me, thanks"
      <<"t","e","l","l"," ","m","e">>,    \* "tell me"
      <<"h","i"," ","h","e","l","p">> }    \* "hi help"

RECURSIVE SeqsUpTo(_, _)
SeqsUpTo(S, n) ==
    IF n = 0 THEN {<<>>}
    ELSE LET shorter == SeqsUpTo(S, n - 1)
         IN shorter \cup {Append(s, x) : s \in {t \in shorter : Len(t) = n - 1}, x \in S}

\* what the chat endpoint can receive: a list of utterance strings
UtteranceLists == SeqsUpTo(Utterances, MaxUtterances)

T_answer == <<"model answer">>

\* conversations graph.invoke is given directly (no endpoint in front): with a
\* turn that is not a user turn
DirectConversations ==
    { <<AIMessage(T_answer, <<>>)>>,
      <<HumanMessage(U_order), AIMessage(T_answer, <<>>)>>,
      <<HumanMessage(U_order), HumanMessage(<<>>)>> }

\* what the classifier model may answer
ClassifierOutputs ==
    { L_rag, L_tools, L_general, L_cannot_help,
      <<" ","T","o","o","l","s","\n">>,
      <<"R","A","G">>,
      <<"r","a","g",".">>,
      <<"o","r","d","e","r","s">>,
      <<>> }

\* ----------------------------------------------------- intent classifier

\* IntentClassification(next=answer): the Literal type admits the four labels
\* only, then validate_next strips, lower-cases and tests membership again;
\* Null stands for ValidationError
IntentClassification(answer) ==
    IF answer \notin Labels THEN Null
    ELSE LET v == StrLower(StrStrip(answer))
         IN IF v \in Labels THEN Some(v) ELSE Null

ClassifierCallsModelAlways(msgs) == TRUE

\* unified_intent_classifier reaches llm.invoke iff the conversation is not
\* empty and the latest human turn has text
ClassifierCallsModel(msgs) ==
    msgs # <<>> /\ get_last_human_message(msgs) # <<>>

ClassifierDecisionUnvalidated(msgs, out) ==
    IF ~ClassifierCallsModel(msgs) THEN L_general ELSE StrLower(StrStrip(out))

\* the value unified_intent_classifier assigns to _routing_decision; `out` is
\* response.content of the model call when one is made
ClassifierDecision(msgs, out) ==
    IF ~ClassifierCallsModel(msgs) THEN L_general
    ELSE LET answer == StrLower(StrStrip(out))
             parsed == IntentClassification(answer)
         IN IF parsed # Null THEN parsed[1] ELSE L_general

RoutingConditionDefault(state) == L_general

\* routing_condition ignores the state it is given and returns the global
RoutingCondition(state) == routing_decision

\* ------------------------------------------------------- fixed messages

T_no_message == <<"rag: cannot process a request without a message">>
T_rag_apology == <<"rag: sorry, cannot get information from the knowledge base, try to rephrase">>
T_hello == <<"general: hello, how can I help">>
T_greeting == <<"general: greeting, I am the support assistant">>
T_capability == <<"general: I help with tracking, delivery, payment, returns">>
T_gratitude == <<"general: you are welcome">>
T_curiosity == <<"general: I can tell about our support services">>
T_refusal == <<"cannot_help: I can only help with customer support questions">>
T_no_response == <<"No response generated">>

\* ------------------------------------------------------------- handlers

\* database_tools, the tools bound to the model in react_tool_agent (two of
\* the twelve stand for all: the graph treats them alike)
database_tools == {"tool_track_order_basic", "tool_can_retry_payment"}

\* the tool calls a model response may carry: none unless tools were bound
ToolCallChoices(bound) == SeqsUpTo(bound, MaxToolCalls)

ReactOfferedToolsAlways(msgs) == database_tools

\* react_tool_agent: the tools bound to the model for this call; coming back
\* from the tool node (last turn a ToolMessage) it invokes the plain llm
ReactOfferedTools(msgs) ==
    IF msgs # <<>> /\ Last(msgs).type = "tool" THEN {} ELSE database_tools

ToolsOrEndConditionAlwaysEnd(msgs) == "END"

\* tools_or_end_condition
ToolsOrEndCondition(msgs) ==
    IF msgs # <<>> /\ Last(msgs).tool_calls # <<>> THEN "tools" ELSE "END"

KW_greeting ==
    << <<"cy_pe","cy_er","cy_i","cy_ve","cy_ie","cy_te">>,
       <<"cy_ze","cy_de","cy_er","cy_a","cy_ve","cy_es","cy_te","cy_ve","cy_u","cy_short_i">>,
       <<"cy_de","cy_o","cy_be","cy_er","cy_yeru","cy_short_i">>,
       <<"h","e","l","l","o">>,
       <<"h","i">> >>
KW_capability ==
    << <<"cy_che","cy_te","cy_o"," ","cy_em","cy_o","cy_zhe","cy_ie","cy_sha","cy_soft_sign">>,
       <<"cy_che","cy_te","cy_o"," ","cy_u","cy_em","cy_ie","cy_ie","cy_sha","cy_soft_sign">>,
       <<"cy_ve","cy_o","cy_ze","cy_em","cy_o","cy_zhe","cy_en","cy_o","cy_es","cy_te","cy_i">>,
       <<"cy_pe","cy_o","cy_em","cy_o","cy_shcha","cy_soft_sign">>,
       <<"h","e","l","p">> >>
KW_gratitude ==
    << <<"cy_es","cy_pe","cy_a","cy_es","cy_i","cy_be","cy_o">>,
       <<"cy_be","cy_el","cy_a","cy_ghe","cy_o","cy_de","cy_a","cy_er","cy_yu">>,
       <<"t","h","a","n","k","s">> >>
KW_curiosity ==
    << <<"cy_i","cy_en","cy_te","cy_ie","cy_er","cy_ie","cy_es","cy_en","cy_o","cy_ghe","cy_o">>,
       <<"i","n","t","e","r","e","s","t","i","n","g">>,
       <<"cy_er","cy_a","cy_es","cy_es","cy_ka","cy_a","cy_zhe","cy_ie","cy_sha","cy_soft_sign">>,
       <<"t","e","l","l"," ","m","e">> >>

\* any(word in user_msg for word in group)
AnyWordIn(group, user_msg) == \E i \in 1..Len(group) : Contains(user_msg, group[i])

GeneralCannedGratitudeFirst(msgs) ==
    LET user_msg_raw == get_last_human_message(msgs)
        user_msg == StrLower(user_msg_raw)
    IN IF msgs = <<>> THEN Some(T_hello)
       ELSE IF user_msg_raw = <<>> THEN Some(T_hello)
       ELSE IF AnyWordIn(KW_greeting, user_msg) THEN Some(T_greeting)
       ELSE IF AnyWordIn(KW_gratitude, user_msg) THEN Some(T_gratitude)
       ELSE IF AnyWordIn(KW_capability, user_msg) THEN Some(T_capability)
       ELSE IF AnyWordIn(KW_curiosity, user_msg) THEN Some(T_curiosity)
       ELSE Null

\* general_response: the canned answer, Null when the step falls through to the model
GeneralCanned(msgs) ==
    LET user_msg_raw == get_last_human_message(msgs)
        user_msg == StrLower(user_msg_raw)
    IN IF msgs = <<>> THEN Some(T_hello)
       ELSE IF user_msg_raw = <<>> THEN Some(T_hello)
       ELSE IF AnyWordIn(KW_greeting, user_msg) THEN Some(T_greeting)
       ELSE IF AnyWordIn(KW_capability, user_msg) THEN Some(T_capability)
       ELSE IF AnyWordIn(KW_gratitude, user_msg) THEN Some(T_gratitude)
       ELSE IF AnyWordIn(KW_curiosity, user_msg) THEN Some(T_curiosity)
       ELSE Null

RagOutcomes == {"ok", "search_fails", "model_fails"}

RagAgentRaises(msgs, outcome) ==
    IF get_last_human_message(msgs) = <<>> THEN Some(AIMessage(T_no_message, <<>>))
    ELSE IF outcome = "ok" THEN Some(AIMessage(T_answer, <<>>))
    ELSE Null

\* rag_agent: the turn it returns (Null: the step raises); `outcome` is what
\* the vector search and the model call did
RagAgentTurn(msgs, outcome) ==
    IF get_last_human_message(msgs) = <<>> THEN Some(AIMessage(T_no_message, <<>>))
    ELSE IF outcome = "ok" THEN Some(AIMessage(T_answer, <<>>))
    ELSE Some(AIMessage(T_rag_apology, <<>>))

\* --------------------------------------------------------- the graph

NoResult == [kind |-> "none", content |-> <<>>]

GraphInit ==
    /\ routing_decision = L_general
    /\ pc = [r \in Requests |-> "idle"]
    /\ messages = [r \in Requests |-> <<>>]
    /\ entry = [r \in Requests |-> "none"]
    /\ result = [r \in Requests |-> NoResult]
    /\ initial = [r \in Requests |-> <<>>]
    /\ raw = [r \in Requests |-> Null]
    /\ classified = [r \in Requests |-> Null]
    /\ runs = [r \in Requests |-> 0]
    /\ entered = [r \in Requests |-> {}]
    /\ failed = [r \in Requests |-> "none"]
    /\ rounds = [r \in Requests |-> 0]
    /\ calls = [r \in Requests |-> {}]
    /\ llm_calls = [r \in Requests |-> 0]

\* graph.invoke(initial_state): START -> unified_intent_classifier
Invoke(r, conv, how) ==
    /\ pc[r] = "idle"
    /\ pc' = [pc EXCEPT ![r] = "unified_intent_classifier"]
    /\ messages' = [messages EXCEPT ![r] = conv]
    /\ initial' = [initial EXCEPT ![r] = conv]
    /\ entry' = [entry EXCEPT ![r] = how]
    /\ UNCHANGED <<routing_decision, result, raw, classified, runs, entered,
                   failed, rounds, calls, llm_calls>>
    /\ UNCHANGED <<toolVars, ragVars, connVars>>

\* main.py chat: one HumanMessage per utterance string, then graph.invoke
Chat(r) ==
    \E utts \in UtteranceLists :
        Invoke(r, [i \in 1..Len(utts) |-> HumanMessage(utts[i])], "chat")

\* the compiled graph invoked by another caller, with history turns
GraphInvoke(r) ==
    \E conv \in DirectConversations : Invoke(r, conv, "graph")

\* a node raised: the exception leaves graph.invoke
Raise(r, what, kind) ==
    /\ pc' = [pc EXCEPT ![r] = "raised"]
    /\ failed' = [failed EXCEPT ![r] = what]
    /\ calls' = [calls EXCEPT ![r] = @ \cup {kind}]
    /\ llm_calls' = [llm_calls EXCEPT ![r] = IF kind = "model" THEN @ + 1 ELSE @]

AppendedOverwrites(r, turn) == messages' = [messages EXCEPT ![r] = <<turn>>]

\* a node returned {"messages": [turn]}: the reducer appends it
Appended(r, turn) == messages' = [messages EXCEPT ![r] = Append(@, turn)]

UnifiedIntentClassifierKeepsDecision(r) ==
    /\ pc[r] = "unified_intent_classifier"
    /\ runs' = [runs EXCEPT ![r] = @ + 1]
    /\ \/ /\ ~ClassifierCallsModel(messages[r])
          /\ UNCHANGED routing_decision
          /\ classified' = [classified EXCEPT ![r] = Some(ClassifierDecision(messages[r], <<>>))]
          /\ pc' = [pc EXCEPT ![r] = "routing_condition"]
          /\ UNCHANGED <<raw, failed, calls, llm_calls>>
       \/ /\ ClassifierCallsModel(messages[r])
          /\ \E out \in ClassifierOutputs :
                /\ routing_decision' = ClassifierDecision(messages[r], out)
                /\ raw' = [raw EXCEPT ![r] = Some(out)]
          /\ classified' = [classified EXCEPT ![r] = Some(routing_decision')]
          /\ pc' = [pc EXCEPT ![r] = "routing_condition"]
          /\ calls' = [calls EXCEPT ![r] = @ \cup {"model"}]
          /\ llm_calls' = [llm_calls EXCEPT ![r] = @ + 1]
          /\ UNCHANGED failed
       \/ /\ ClassifierCallsModel(messages[r])
          /\ Raise(r, "classifier_model", "model")
          /\ UNCHANGED <<routing_decision, raw, classified>>
    /\ UNCHANGED <<messages, entry, result, initial, entered, rounds>>
    /\ UNCHANGED <<toolVars, ragVars, connVars>>

UnifiedIntentClassifier(r) ==
    /\ pc[r] = "unified_intent_classifier"
    /\ runs' = [runs EXCEPT ![r] = @ + 1]
    /\ \/ /\ ~ClassifierCallsModel(messages[r])
          /\ routing_decision' = ClassifierDecision(messages[r], <<>>)
          /\ classified' = [classified EXCEPT ![r] = Some(routing_decision')]
          /\ pc' = [pc EXCEPT ![r] = "routing_condition"]
          /\ UNCHANGED <<raw, failed, calls, llm_calls>>
       \/ /\ ClassifierCallsModel(messages[r])
          /\ \E out \in ClassifierOutputs :
                /\ routing_decision' = ClassifierDecision(messages[r], out)
                /\ raw' = [raw EXCEPT ![r] = Some(out)]
          /\ classified' = [classified EXCEPT ![r] = Some(routing_decision')]
          /\ pc' = [pc EXCEPT ![r] = "routing_condition"]
          /\ calls' = [calls EXCEPT ![r] = @ \cup {"model"}]
          /\ llm_calls' = [llm_calls EXCEPT ![r] = @ + 1]
          /\ UNCHANGED failed
       \/ /\ ClassifierCallsModel(messages[r])
          /\ Raise(r, "classifier_model", "model")
          /\ UNCHANGED <<routing_decision, raw, classified>>
    /\ UNCHANGED <<messages, entry, result, initial, entered, rounds>>
    /\ UNCHANGED <<toolVars, ragVars, connVars>>

\* the conditional edge after the classifier
Route(r) ==
    /\ pc[r] = "routing_condition"
    /\ LET node == RouteMap(RoutingCondition(messages[r]))
       IN /\ pc' = [pc EXCEPT ![r] = node]
          /\ entered' = [entered EXCEPT ![r] = @ \cup {node}]
    /\ raw' = [raw EXCEPT ![r] = Null]
    /\ UNCHANGED <<routing_decision, messages, entry, result, initial,
                   classified, runs, failed, rounds, calls, llm_calls>>
    /\ UNCHANGED <<toolVars, ragVars, connVars>>

RagAgent(r) ==
    /\ pc[r] = "rag_agent"
    /\ \E outcome \in RagOutcomes :
          /\ get_last_human_message(messages[r]) = <<>> => outcome = "ok"
          /\ LET turn == RagAgentTurn(messages[r], outcome)
                 made == IF get_last_human_message(messages[r]) = <<>> THEN {}
                         ELSE IF outcome = "search_fails" THEN {"vector"}
                         ELSE {"vector", "model"}
             IN /\ calls' = [calls EXCEPT ![r] = @ \cup made]
                /\ llm_calls' = [llm_calls EXCEPT ![r] =
                                    IF "model" \in made THEN @ + 1 ELSE @]
                /\ failed' = [failed EXCEPT ![r] =
                                 IF outcome = "ok" THEN @ ELSE "rag_" \o outcome]
                /\ IF turn = Null
                   THEN /\ pc' = [pc EXCEPT ![r] = "raised"]
                        /\ UNCHANGED messages
                   ELSE /\ Appended(r, turn[1])
                        /\ pc' = [pc EXCEPT ![r] = "END"]
    /\ UNCHANGED <<routing_decision, entry, result, initial, raw, classified,
                   runs, entered, rounds>>
    /\ UNCHANGED <<toolVars, ragVars, connVars>>

ReactToolAgent(r) ==
    /\ pc[r] = "react_tool_agent"
    /\ \/ /\ \E tcs \in ToolCallChoices(ReactOfferedTools(messages[r])) :
                Appended(r, AIMessage(T_answer, tcs))
          /\ pc' = [pc EXCEPT ![r] = ToolsOrEndCondition(messages'[r])]
          /\ calls' = [calls EXCEPT ![r] = @ \cup {"model"}]
          /\ llm_calls' = [llm_calls EXCEPT ![r] = @ + 1]
          /\ UNCHANGED failed
       \/ /\ Raise(r, "react_model", "model")
          /\ UNCHANGED messages
    /\ UNCHANGED <<routing_decision, entry, result, initial, raw, classified,
                   runs, entered, rounds>>
    /\ UNCHANGED <<toolVars, ragVars, connVars>>

ToolNodeThenEnd(r) ==
    /\ pc[r] = "tools"
    /\ LET tcs == Last(messages[r]).tool_calls
       IN messages' = [messages EXCEPT ![r] =
                          @ \o [i \in 1..Len(tcs) |-> ToolMessage(tcs[i])]]
    /\ \E storeOk \in BOOLEAN :
          failed' = [failed EXCEPT ![r] = IF storeOk THEN @ ELSE "store_query"]
    /\ rounds' = [rounds EXCEPT ![r] = @ + 1]
    /\ calls' = [calls EXCEPT ![r] = @ \cup {"store"}]
    /\ UNCHANGED llm_calls
    /\ pc' = [pc EXCEPT ![r] = "END"]
    /\ UNCHANGED <<routing_decision, entry, result, initial, raw, classified,
                   runs, entered>>
    /\ UNCHANGED <<toolVars, ragVars, connVars>>

\* ToolNode(all_tools): one ToolMessage per tool call of the last turn; a store
\* error inside a tool is caught by the tool, which still returns a result
ToolNode(r) ==
    /\ pc[r] = "tools"
    /\ LET tcs == Last(messages[r]).tool_calls
       IN messages' = [messages EXCEPT ![r] =
                          @ \o [i \in 1..Len(tcs) |-> ToolMessage(tcs[i])]]
    /\ \E storeOk \in BOOLEAN :
          failed' = [failed EXCEPT ![r] = IF storeOk THEN @ ELSE "store_query"]
    /\ rounds' = [rounds EXCEPT ![r] = @ + 1]
    /\ calls' = [calls EXCEPT ![r] = @ \cup {"store"}]
    /\ UNCHANGED llm_calls
    /\ pc' = [pc EXCEPT ![r] = "react_tool_agent"]
    /\ UNCHANGED <<routing_decision, entry, result, initial, raw, classified,
                   runs, entered>>
    /\ UNCHANGED <<toolVars, ragVars, connVars>>

GeneralResponseSilentOnEmpty(r) ==
    /\ pc[r] = "general_response"
    /\ LET canned == GeneralCanned(messages[r])
       IN \/ /\ canned # Null
             /\ IF messages[r] = <<>>
                THEN UNCHANGED messages
                ELSE Appended(r, AIMessage(canned[1], <<>>))
             /\ pc' = [pc EXCEPT ![r] = "END"]
             /\ UNCHANGED <<failed, calls, llm_calls>>
          \/ /\ canned = Null
             /\ Appended(r, AIMessage(T_answer, <<>>))
             /\ pc' = [pc EXCEPT ![r] = "END"]
             /\ calls' = [calls EXCEPT ![r] = @ \cup {"model"}]
             /\ llm_calls' = [llm_calls EXCEPT ![r] = @ + 1]
             /\ UNCHANGED failed
          \/ /\ canned = Null
             /\ Raise(r, "general_model", "model")
             /\ UNCHANGED messages
    /\ UNCHANGED <<routing_decision, entry, result, initial, raw, classified,
                   runs, entered, rounds>>
    /\ UNCHANGED <<toolVars, ragVars, connVars>>

GeneralResponse(r) ==
    /\ pc[r] = "general_response"
    /\ LET canned == GeneralCanned(messages[r])
       IN \/ /\ canned # Null
             /\ Appended(r, AIMessage(canned[1], <<>>))
             /\ pc' = [pc EXCEPT ![r] = "END"]
             /\ UNCHANGED <<failed, calls, llm_calls>>
          \/ /\ canned = Null
             /\ Appended(r, AIMessage(T_answer, <<>>))
             /\ pc' = [pc EXCEPT ![r] = "END"]
             /\ calls' = [calls EXCEPT ![r] = @ \cup {"model"}]
             /\ llm_calls' = [llm_calls EXCEPT ![r] = @ + 1]
             /\ UNCHANGED failed
          \/ /\ canned = Null
             /\ Raise(r, "general_model", "model")
             /\ UNCHANGED messages
    /\ UNCHANGED <<routing_decision, entry, result, initial, raw, classified,
                   runs, entered, rounds>>
    /\ UNCHANGED <<toolVars, ragVars, connVars>>

CannotHelpBranches(r) ==
    /\ pc[r] = "cannot_help"
    /\ Appended(r, AIMessage(IF AnyWordIn(KW_greeting, StrLower(get_last_human_message(messages[r])))
                             THEN T_greeting ELSE T_refusal, <<>>))
    /\ pc' = [pc EXCEPT ![r] = "END"]
    /\ UNCHANGED <<routing_decision, entry, result, initial, raw, classified,
                   runs, entered, failed, rounds, calls, llm_calls>>
    /\ UNCHANGED <<toolVars, ragVars, connVars>>

CannotHelp(r) ==
    /\ pc[r] = "cannot_help"
    /\ Appended(r, AIMessage(T_refusal, <<>>))
    /\ pc' = [pc EXCEPT ![r] = "END"]
    /\ UNCHANGED <<routing_decision, entry, result, initial, raw, classified,
                   runs, entered, failed, rounds, calls, llm_calls>>
    /\ UNCHANGED <<toolVars, ragVars, connVars>>

ChatReturnFirstTurn(r) ==
    /\ pc[r] = "END" /\ entry[r] = "chat"
    /\ result' = [result EXCEPT ![r] =
                     [kind |-> "response",
                      content |-> IF messages[r] # <<>> THEN messages[r][1].content
                                  ELSE T_no_response]]
    /\ pc' = [pc EXCEPT ![r] = "returned"]
    /\ UNCHANGED <<routing_decision, messages, entry, initial, raw, classified,
                   runs, entered, failed, rounds, calls, llm_calls>>
    /\ UNCHANGED <<toolVars, ragVars, connVars>>

\* main.py chat, after graph.invoke returned
ChatReturn(r) ==
    /\ pc[r] = "END" /\ entry[r] = "chat"
    /\ result' = [result EXCEPT ![r] =
                     [kind |-> "response",
                      content |-> IF messages[r] # <<>> THEN Last(messages[r]).content
                                  ELSE T_no_response]]
    /\ pc' = [pc EXCEPT ![r] = "returned"]
    /\ UNCHANGED <<routing_decision, messages, entry, initial, raw, classified,
                   runs, entered, failed, rounds, calls, llm_calls>>
    /\ UNCHANGED <<toolVars, ragVars, connVars>>

\* main.py chat, except Exception: the error payload, no "response"
ChatExcept(r) ==
    /\ pc[r] = "raised" /\ entry[r] = "chat"
    /\ result' = [result EXCEPT ![r] =
                     [kind |-> "error", content |-> <<"Error processing request">>]]
    /\ pc' = [pc EXCEPT ![r] = "returned"]
    /\ UNCHANGED <<routing_decision, messages, entry, initial, raw, classified,
                   runs, entered, failed, rounds, calls, llm_calls>>
    /\ UNCHANGED <<toolVars, ragVars, connVars>>

\* a direct caller gets the final state, or the exception
GraphReturn(r) ==
    /\ pc[r] \in {"END", "raised"} /\ entry[r] = "graph"
    /\ result' = [result EXCEPT ![r] =
                     [kind |-> IF pc[r] = "END" THEN "state" ELSE "exception",
                      content |-> <<>>]]
    /\ pc' = [pc EXCEPT ![r] = "returned"]
    /\ UNCHANGED <<routing_decision, messages, entry, initial, raw, classified,
                   runs, entered, failed, rounds, calls, llm_calls>>
    /\ UNCHANGED <<toolVars, ragVars, connVars>>

\* the request is over; its state is dropped, the global stays
Finish(r) ==
    /\ pc[r] = "returned"
    /\ pc' = [pc EXCEPT ![r] = "idle"]
    /\ messages' = [messages EXCEPT ![r] = <<>>]
    /\ entry' = [entry EXCEPT ![r] = "none"]
    /\ result' = [result EXCEPT ![r] = NoResult]
    /\ initial' = [initial EXCEPT ![r] = <<>>]
    /\ raw' = [raw EXCEPT ![r] = Null]
    /\ classified' = [classified EXCEPT ![r] = Null]
    /\ runs' = [runs EXCEPT ![r] = 0]
    /\ entered' = [entered EXCEPT ![r] = {}]
    /\ failed' = [failed EXCEPT ![r] = "none"]
    /\ rounds' = [rounds EXCEPT ![r] = 0]
    /\ calls' = [calls EXCEPT ![r] = {}]
    /\ llm_calls' = [llm_calls EXCEPT ![r] = 0]
    /\ UNCHANGED routing_decision
    /\ UNCHANGED <<toolVars, ragVars, connVars>>

\* one step of the graph run of request r
Step(r) ==
    \/ UnifiedIntentClassifier(r)
    \/ Route(r)
    \/ RagAgent(r)
    \/ ReactToolAgent(r)
    \/ ToolNode(r)
    \/ GeneralResponse(r)
    \/ CannotHelp(r)
    \/ ChatReturn(r)
    \/ ChatExcept(r)
    \/ GraphReturn(r)

\* ------------------------------------------------------------ the store

MaxTime == 8
MaxCooldown == 2
MaxDays == 2
TicksPerMinute == 2
TicksPerDay == 2
MaxPolicyDays == 1

\* datetime.astimezone(timezone.utc).isoformat(), and str(date)
IsoFormat(t) == <<"iso", t>>
DateStr(d) == <<"date", d>>

S_failed == <<"f","a","i","l","e","d">>
S_Failed == <<"F","a","i","l","e","d">>
S_FAILED == <<"F","A","I","L","E","D">>
S_Completed == <<"C","o","m","p","l","e","t","e","d">>
S_PickedUp == <<"S","h","i","p","m","e","n","t"," ","p","i","c","k","e","d"," ","u","p">>
S_InTransit == <<"I","n"," ","T","r","a","n","s","i","t">>
S_Delivered == <<"D","e","l","i","v","e","r","e","d">>

S_DELIVERED_door == <<"D","E","L","I","V","E","R","E","D"," ","d","o","o","r">>
S_OutForDelivery == <<"O","u","t"," ","f","o","r"," ","D","e","l","i","v","e","r","y">>

EmptyStore ==
    [orders |-> {}, shipment_events |-> {}, shipping_methods |-> {},
     payments |-> {}, returns |-> {}]

\* rows of the schema of seed_postgres_cs.py; times are clock ticks, money is cents
O_shipped ==
    [order_id |-> 1001, status |-> "Shipped", tracking_no |-> Some("TRK1001"),
     carrier |-> Some("UPS"), eta_date |-> Some(8)]
O_pending ==
    [order_id |-> 1001, status |-> "PendingPayment", tracking_no |-> Null,
     carrier |-> Null, eta_date |-> Null]

EventCatalog ==
    { [event_id |-> 1, tracking_no |-> "TRK1001", event_time |-> 1, status |-> S_PickedUp,
       location |-> Some("New York, NY"), details |-> Some("picked up")],
      [event_id |-> 2, tracking_no |-> "TRK1001", event_time |-> 3, status |-> S_InTransit,
       location |-> Some("Harrisburg, PA"), details |-> Some("departed")],
      [event_id |-> 3, tracking_no |-> "TRK1001", event_time |-> 5, status |-> S_InTransit,
       location |-> Some("Newark, NJ"), details |-> Some("arrived")] }

O_delivered ==
    [order_id |-> 1001, status |-> "Delivered", tracking_no |-> Some("TRK1001"),
     carrier |-> Some("DHL"), eta_date |-> Some(2)]

\* events of a delivered parcel, and one of a parcel of no order of the store
DeliveryCatalog ==
    { [event_id |-> 4, tracking_no |-> "TRK1001", event_time |-> 1, status |-> S_OutForDelivery,
       location |-> Some("Madrid, ES"), details |-> Some("en route")],
      [event_id |-> 5, tracking_no |-> "TRK1001", event_time |-> 2, status |-> S_Delivered,
       location |-> Some("Madrid, ES"), details |-> Some("front door")],
      [event_id |-> 6, tracking_no |-> "TRK1001", event_time |-> 4, status |-> S_DELIVERED_door,
       location |-> Some("Madrid, ES"), details |-> Null],
      [event_id |-> 7, tracking_no |-> "TRK0000", event_time |-> 3, status |-> S_Delivered,
       location |-> Null, details |-> Null] }

PaymentCatalog ==
    { [payment_id |-> 1, order_id |-> 1001, status |-> S_Failed, last_attempt |-> Some(4),
       failure_code |-> Some("card_declined"), failure_reason |-> Some("declined")],
      [payment_id |-> 2, order_id |-> 1001, status |-> S_Completed, last_attempt |-> Some(4),
       failure_code |-> Null, failure_reason |-> Null],
      [payment_id |-> 3, order_id |-> 1001, status |-> S_FAILED, last_attempt |-> Some(2),
       failure_code |-> Some("card_declined"), failure_reason |-> Null],
      [payment_id |-> 4, order_id |-> 1001, status |-> S_failed, last_attempt |-> Some(6),
       failure_code |-> Null, failure_reason |-> Null] }

\* a payment row without an attempt time: the seed schema declares the column
\* NOT NULL, the tools provide for its absence (ORDER BY last_attempt DESC
\* NULLS LAST; isinstance(last_attempt, datetime)), the store being any
\* database DATABASE_URL names
P_undated ==
    [payment_id |-> 5, order_id |-> 1001, status |-> S_Failed, last_attempt |-> Null,
     failure_code |-> Some("card_declined"), failure_reason |-> Null]

MethodCatalog ==
    { [shipping_method_id |-> 1, name |-> "Standard", region |-> "US", carrier |-> "UPS",
       cost |-> 500, est_days_min |-> 3, est_days_max |-> 5],
      [shipping_method_id |-> 2, name |-> "Express", region |-> "US", carrier |-> "UPS",
       cost |-> 1500, est_days_min |-> 1, est_days_max |-> 2],
      [shipping_method_id |-> 3, name |-> "International", region |-> "World", carrier |-> "DHL",
       cost |-> 2500, est_days_min |-> 7, est_days_max |-> 12] }

ReturnCatalog ==
    { [return_id |-> 1, order_id |-> 1001, request_date |-> 3, status |-> "Pending",
       product_title |-> Some("Running Shoes")],
      [return_id |-> 2, order_id |-> 1001, request_date |-> 6, status |-> "Approved",
       product_title |-> Null] }

\* the store contents the tools are run against
Stores ==
    {[EmptyStore EXCEPT !.orders = os, !.shipment_events = es] :
        os \in {{}, {O_shipped}, {O_pending}}, es \in SUBSET EventCatalog}
    \cup {[EmptyStore EXCEPT !.orders = {O_pending}, !.payments = ps] :
            ps \in SUBSET PaymentCatalog}
    \cup {[EmptyStore EXCEPT !.orders = {O_pending}, !.payments = {P_undated} \cup ps] :
            ps \in {{}, {x \in PaymentCatalog : x.payment_id = 2}}}
    \cup {[EmptyStore EXCEPT !.shipping_methods = ms] : ms \in SUBSET MethodCatalog}
    \cup {[EmptyStore EXCEPT !.orders = {O_shipped}, !.returns = rs] :
            rs \in SUBSET ReturnCatalog}
    \cup {[EmptyStore EXCEPT !.orders = {O_delivered}, !.shipment_events = es] :
            es \in SUBSET DeliveryCatalog}

\* the arguments the model may pass
OrderIdArgs == {1001, 1002}
TrackingNoArgs == {"TRK1001", "TRK0000"}
RegionArgs == {"US", "Mars"}
MaxDaysArgs == {Null} \cup {Some(d) : d \in 0..MaxDays}
MethodNameArgs == {Null, Some("Express"), Some("Teleport")}
CooldownArgs == 0..MaxCooldown
PolicyDaysArgs == 0..MaxPolicyDays
Clock == 0..MaxTime

FetchOneIgnoresError(rows, ok) == IF rows # {} THEN {Some(x) : x \in rows} ELSE {Null}

\* _fetch_one: the first row of the query as a dict; None when the query
\* finds no row and when the store raises
FetchOne(rows, ok) == IF ok /\ rows # {} THEN {Some(x) : x \in rows} ELSE {Null}

\* _fetch_all: the rows of the query as a list of dicts (`results`: the orders
\* in which the store may return them); the empty list when the store raises
FetchAll(results, ok) == IF ok THEN results ELSE {<<>>}

\* SELECT ... FROM orders WHERE order_id = %s LIMIT 1
Q_order_by_id(order_id) ==
    {[order_id |-> o.order_id, status |-> o.status, tracking_no |-> o.tracking_no,
      carrier |-> o.carrier, eta_date |-> o.eta_date] :
        o \in {x \in store.orders : x.order_id = order_id}}

\* SELECT order_id, status, carrier, eta_date FROM orders WHERE tracking_no = %s LIMIT 1
Q_order_by_tracking(tracking_no) ==
    {[order_id |-> o.order_id, status |-> o.status, carrier |-> o.carrier,
      eta_date |-> o.eta_date] :
        o \in {x \in store.orders : x.tracking_no = Some(tracking_no)}}

\* SELECT tracking_no FROM orders WHERE order_id = %s LIMIT 1
Q_tracking_of_order(order_id) ==
    {[tracking_no |-> o.tracking_no] : o \in {x \in store.orders : x.order_id = order_id}}

Q_last_event_ascending(tracking_no) ==
    LET es == {e \in store.shipment_events : tracking_no = Some(e.tracking_no)}
    IN {[status |-> e.status, location |-> e.location, event_time |-> e.event_time,
         details |-> e.details] :
           e \in {x \in es : \A y \in es : y.event_time >= x.event_time}}

\* SELECT ... FROM shipment_events WHERE tracking_no = %s ORDER BY event_time DESC
\* LIMIT 1; the parameter may be None, which no row equals
Q_last_event(tracking_no) ==
    LET es == {e \in store.shipment_events : tracking_no = Some(e.tracking_no)}
    IN {[status |-> e.status, location |-> e.location, event_time |-> e.event_time,
         details |-> e.details] :
           e \in {x \in es : \A y \in es : y.event_time <= x.event_time}}

MethodRow(m) ==
    [name |-> m.name, carrier |-> m.carrier, cost |-> m.cost,
     est_days_min |-> m.est_days_min, est_days_max |-> m.est_days_max]

\* ... FROM shipping_methods WHERE region IN (%s, 'World') [AND est_days_max <= %s]
\* ORDER BY cost ASC, est_days_min ASC LIMIT 1
Q_cheapest_method(region, max_days) ==
    LET ms == {m \in store.shipping_methods :
                  /\ m.region \in {region, "World"}
                  /\ max_days # Null => m.est_days_max <= max_days[1]}
    IN {MethodRow(m) :
          m \in {x \in ms : \A y \in ms :
                    \/ x.cost < y.cost
                    \/ x.cost = y.cost /\ x.est_days_min <= y.est_days_min}}

\* ... FROM shipping_methods WHERE region IN (%s, 'World')
\* ORDER BY cost ASC, est_days_min ASC (no LIMIT)
Q_methods_by_region(region) ==
    LET ms == {m \in store.shipping_methods : m.region \in {region, "World"}}
        n == Cardinality(ms)
    IN {[i \in 1..n |-> MethodRow(sq[i])] :
          sq \in {f \in [1..n -> ms] :
                    /\ \A i, j \in 1..n : i # j => f[i] # f[j]
                    /\ \A i, j \in 1..n : i < j =>
                          \/ f[i].cost < f[j].cost
                          \/ f[i].cost = f[j].cost /\ f[i].est_days_min <= f[j].est_days_min}}

\* tool_estimate_delivery_cost: by name (LIMIT 1, no order), or ORDER BY cost ASC LIMIT 1
Q_estimate_method(region, method_name) ==
    LET ms == {m \in store.shipping_methods : m.region \in {region, "World"}}
    IN IF method_name # Null /\ method_name # Some("")
       THEN {MethodRow(m) : m \in {x \in ms : x.name = method_name[1]}}
       ELSE {MethodRow(m) : m \in {x \in ms : \A y \in ms : x.cost <= y.cost}}

\* ... FROM payments WHERE order_id = %s ORDER BY last_attempt DESC NULLS LAST LIMIT 1
LastPaymentRows(order_id) ==
    LET ps == {x \in store.payments : x.order_id = order_id}
        dated == {x \in ps : x.last_attempt # Null}
    IN IF dated # {}
       THEN {x \in dated : \A y \in dated : y.last_attempt[1] <= x.last_attempt[1]}
       ELSE ps

Q_last_payment(order_id) ==
    {[status |-> x.status, last_attempt |-> x.last_attempt,
      failure_code |-> x.failure_code, failure_reason |-> x.failure_reason] :
        x \in LastPaymentRows(order_id)}

Q_payment_status(order_id) ==
    {[status |-> x.status, last_attempt |-> x.last_attempt] :
        x \in LastPaymentRows(order_id)}

\* ... FROM returns r LEFT JOIN products p ... WHERE r.order_id = %s
\* ORDER BY r.request_date DESC LIMIT 1
Q_last_return(order_id) ==
    LET rs == {x \in store.returns : x.order_id = order_id}
    IN {[status |-> x.status, request_date |-> x.request_date,
         product_title |-> x.product_title] :
           x \in {z \in rs : \A y \in rs : y.request_date <= z.request_date}}

\* status ILIKE 'Delivered%': the prefix, letters compared without case
ILikeDelivered(status) ==
    /\ Len(status) >= Len(S_Delivered)
    /\ StrLower(SubSeq(status, 1, Len(S_Delivered))) = StrLower(S_Delivered)

\* SELECT e.event_time FROM shipment_events e JOIN orders o ON o.tracking_no =
\* e.tracking_no WHERE o.order_id = %s AND e.status ILIKE 'Delivered%%'
\* ORDER BY e.event_time DESC LIMIT 1
Q_delivered_event(order_id) ==
    LET es == {e \in store.shipment_events :
                  /\ \E o \in store.orders :
                        o.order_id = order_id /\ o.tracking_no = Some(e.tracking_no)
                  /\ ILikeDelivered(e.status)}
    IN {[event_time |-> e.event_time] :
           e \in {x \in es : \A y \in es : y.event_time <= x.event_time}}

\* ------------------------------------------------------------- the tools

\* the "ensure iso" block on a fetched event
NormalizeEvent(evt) ==
    IF evt = Null THEN Null
    ELSE Some([evt[1] EXCEPT !.event_time = IsoFormat(@)])

\* the "normalize eta" block: a DATE has no astimezone, str() is taken
NormalizeEta(eta) == IF eta = Null THEN Null ELSE Some(DateStr(eta[1]))

tool_track_order_basic_found_by_event(order_id, order, last_evt) ==
    IF order = Null THEN [found |-> FALSE, order_id |-> order_id]
    ELSE [found |-> last_evt # Null, order_id |-> order[1].order_id, status |-> order[1].status,
          tracking_no |-> order[1].tracking_no, carrier |-> order[1].carrier,
          eta_date |-> NormalizeEta(order[1].eta_date),
          last_shipment_event |-> NormalizeEvent(last_evt)]

tool_track_order_basic(order_id, order, last_evt) ==
    IF order = Null THEN [found |-> FALSE, order_id |-> order_id]
    ELSE [found |-> TRUE, order_id |-> order[1].order_id, status |-> order[1].status,
          tracking_no |-> order[1].tracking_no, carrier |-> order[1].carrier,
          eta_date |-> NormalizeEta(order[1].eta_date),
          last_shipment_event |-> NormalizeEvent(last_evt)]

tool_track_by_tracking_no(tracking_no, order, last_evt) ==
    IF order = Null THEN [found |-> FALSE, tracking_no |-> tracking_no]
    ELSE [found |-> TRUE, tracking_no |-> tracking_no, order_id |-> order[1].order_id,
          status |-> order[1].status, carrier |-> order[1].carrier,
          eta_date |-> NormalizeEta(order[1].eta_date),
          last_event |-> NormalizeEvent(last_evt)]

\* `not t or not t.get("tracking_no")`
NoTrackingNo(t) == t = Null \/ t[1].tracking_no = Null \/ t[1].tracking_no = Some("")

tool_track_latest_status(order_id, t, last_evt) ==
    IF NoTrackingNo(t) THEN [found |-> FALSE, order_id |-> order_id]
    ELSE [found |-> last_evt # Null, order_id |-> order_id,
          tracking_no |-> t[1].tracking_no[1], latest |-> NormalizeEvent(last_evt)]

tool_delivery_options_by_region(region, rows) == [region |-> region, methods |-> rows]

tool_cheapest_delivery(region, max_days, row) ==
    [found |-> row # Null, region |-> region, option |-> row]

tool_estimate_delivery_cost(region, method_name, row) ==
    [found |-> row # Null, region |-> region, estimate |-> row]

tool_last_payment_status(order_id, row) ==
    IF row = Null THEN [found |-> FALSE, order_id |-> order_id]
    ELSE [found |-> TRUE, order_id |-> order_id, status |-> row[1].status,
          last_attempt |-> IF row[1].last_attempt = Null THEN Null
                           ELSE Some(IsoFormat(row[1].last_attempt[1])),
          failure_code |-> row[1].failure_code,
          failure_reason |-> row[1].failure_reason]

tool_can_retry_payment_strict(order_id, cooldown_minutes, row, now) ==
    IF row = Null
    THEN [allowed |-> FALSE, reason |-> "No payments found", order_id |-> order_id]
    ELSE IF StrLower(row[1].status) # S_failed
    THEN [allowed |-> FALSE,
          reason |-> <<"Status is '">> \o StrLower(row[1].status) \o <<"' not 'Failed'.">>]
    ELSE LET next_time == IF row[1].last_attempt # Null
                          THEN row[1].last_attempt[1] + cooldown_minutes * TicksPerMinute
                          ELSE now
         IN [allowed |-> now > next_time,
             reason |-> IF now > next_time THEN "Cooldown passed" ELSE "Cooldown not passed",
             next_retry_after |-> IsoFormat(next_time), order_id |-> order_id]

tool_can_retry_payment_denies_unknown(order_id, cooldown_minutes, row, now) ==
    IF row = Null
    THEN [allowed |-> FALSE, reason |-> "No payments found", order_id |-> order_id]
    ELSE IF StrLower(row[1].status) # S_failed
    THEN [allowed |-> FALSE,
          reason |-> <<"Status is '">> \o StrLower(row[1].status) \o <<"' not 'Failed'.">>]
    ELSE IF row[1].last_attempt = Null
    THEN [allowed |-> FALSE, reason |-> "Cooldown not passed",
          next_retry_after |-> IsoFormat(now), order_id |-> order_id]
    ELSE LET next_time == row[1].last_attempt[1] + cooldown_minutes * TicksPerMinute
         IN [allowed |-> now >= next_time,
             reason |-> IF now >= next_time THEN "Cooldown passed" ELSE "Cooldown not passed",
             next_retry_after |-> IsoFormat(next_time), order_id |-> order_id]

\* `row` is the fetched payment row, `now` is datetime.now(timezone.utc)
tool_can_retry_payment(order_id, cooldown_minutes, row, now) ==
    IF row = Null
    THEN [allowed |-> FALSE, reason |-> "No payments found", order_id |-> order_id]
    ELSE IF StrLower(row[1].status) # S_failed
    THEN [allowed |-> FALSE,
          reason |-> <<"Status is '">> \o StrLower(row[1].status) \o <<"' not 'Failed'.">>]
    ELSE LET next_time == IF row[1].last_attempt # Null
                          THEN row[1].last_attempt[1] + cooldown_minutes * TicksPerMinute
                          ELSE now
         IN [allowed |-> now >= next_time,
             reason |-> IF now >= next_time THEN "Cooldown passed" ELSE "Cooldown not passed",
             next_retry_after |-> IsoFormat(next_time), order_id |-> order_id]

\* `last` is what tool_last_payment_status.invoke returned
tool_payment_retry_steps(order_id, preferred_method, last) ==
    IF ~last.found
    THEN [ok |-> FALSE, order_id |-> order_id, message |-> "No payment info found."]
    ELSE IF StrLower(last.status) # S_failed
    THEN [ok |-> FALSE, order_id |-> order_id, message |-> "Payment is not in 'Failed' state."]
    ELSE [ok |-> TRUE, order_id |-> order_id,
          steps |-> <<"open the order page", "press retry payment",
                      <<"choose the payment method",
                        IF preferred_method # Null /\ preferred_method # Some("")
                        THEN preferred_method[1] ELSE "recommended: CreditCard">>,
                      "confirm the payment">>,
          last_attempt |-> last.last_attempt,
          failure_code |-> last.failure_code,
          failure_reason |-> last.failure_reason]

\* a stub: no store access
tool_request_return_label(order_id, email) ==
    [created |-> TRUE, order_id |-> order_id, email |-> email]

tool_last_return_status(order_id, row) ==
    IF row = Null THEN [found |-> FALSE, order_id |-> order_id]
    ELSE [found |-> TRUE, order_id |-> order_id, status |-> row[1].status,
          request_date |-> DateStr(row[1].request_date),
          product_title |-> row[1].product_title]

tool_return_eligibility_bare(order_id, policy_days, row, now) ==
    IF row = Null
    THEN [reason |-> "No Delivered event found.", order_id |-> order_id,
          policy_days |-> policy_days, delivered_at |-> Null]
    ELSE LET days == (now - row[1].event_time) \div TicksPerDay
         IN [eligible |-> days <= policy_days, order_id |-> order_id,
             policy_days |-> policy_days,
             delivered_at |-> Some(IsoFormat(row[1].event_time)),
             days_since_delivery |-> days]

tool_return_eligibility_strict(order_id, policy_days, row, now) ==
    IF row = Null
    THEN [eligible |-> FALSE, reason |-> "No Delivered event found.", order_id |-> order_id,
          policy_days |-> policy_days, delivered_at |-> Null]
    ELSE LET days == (now - row[1].event_time) \div TicksPerDay
         IN [eligible |-> days < policy_days, order_id |-> order_id,
             policy_days |-> policy_days,
             delivered_at |-> Some(IsoFormat(row[1].event_time)),
             days_since_delivery |-> days]

tool_return_eligibility_truncating(order_id, policy_days, row, now) ==
    IF row = Null
    THEN [eligible |-> FALSE, reason |-> "No Delivered event found.", order_id |-> order_id,
          policy_days |-> policy_days, delivered_at |-> Null]
    ELSE LET diff == now - row[1].event_time
             days == IF diff >= 0 THEN diff \div TicksPerDay ELSE 0 - ((0 - diff) \div TicksPerDay)
         IN [eligible |-> days <= policy_days, order_id |-> order_id,
             policy_days |-> policy_days,
             delivered_at |-> Some(IsoFormat(row[1].event_time)),
             days_since_delivery |-> days]

\* `row` is the fetched event row, `now` is datetime.now(timezone.utc);
\* timedelta.days is the floor of the difference in days
tool_return_eligibility(order_id, policy_days, row, now) ==
    IF row = Null
    THEN [eligible |-> FALSE, reason |-> "No Delivered event found.", order_id |-> order_id,
          policy_days |-> policy_days, delivered_at |-> Null]
    ELSE LET days == (now - row[1].event_time) \div TicksPerDay
         IN [eligible |-> days <= policy_days, order_id |-> order_id,
             policy_days |-> policy_days,
             delivered_at |-> Some(IsoFormat(row[1].event_time)),
             days_since_delivery |-> days]

NoCall == [tool |-> "none", args |-> [none |-> TRUE], now |-> 0]

ToolIdle ==
    /\ store = EmptyStore
    /\ tool_call = NoCall
    /\ tool_result = [none |-> TRUE]
    /\ queries = <<>>

\* a tool invocation returned `res` after issuing the queries `qs`
Returned(name, args, now, res, qs) ==
    /\ tool_call' = [tool |-> name, args |-> args, now |-> now]
    /\ tool_result' = res
    /\ queries' = qs
    /\ UNCHANGED <<store, graphVars, ragVars, connVars>>

Query(table, ok) == [table |-> table, ok |-> ok]

ToolTrackOrderBasic ==
    \E order_id \in OrderIdArgs, ok1, ok2 \in BOOLEAN :
        \E order \in FetchOne(Q_order_by_id(order_id), ok1) :
            IF order = Null
            THEN /\ ok2
                 /\ Returned("tool_track_order_basic", [order_id |-> order_id], 0,
                             tool_track_order_basic(order_id, Null, Null),
                             <<Query("orders", ok1)>>)
            ELSE \E evt \in FetchOne(Q_last_event(order[1].tracking_no), ok2) :
                    Returned("tool_track_order_basic", [order_id |-> order_id], 0,
                             tool_track_order_basic(order_id, order, evt),
                             <<Query("orders", ok1), Query("shipment_events", ok2)>>)

ToolTrackByTrackingNo ==
    \E tracking_no \in TrackingNoArgs, ok1, ok2 \in BOOLEAN :
        \E order \in FetchOne(Q_order_by_tracking(tracking_no), ok1) :
            IF order = Null
            THEN /\ ok2
                 /\ Returned("tool_track_by_tracking_no", [tracking_no |-> tracking_no], 0,
                             tool_track_by_tracking_no(tracking_no, Null, Null),
                             <<Query("orders", ok1)>>)
            ELSE \E evt \in FetchOne(Q_last_event(Some(tracking_no)), ok2) :
                    Returned("tool_track_by_tracking_no", [tracking_no |-> tracking_no], 0,
                             tool_track_by_tracking_no(tracking_no, order, evt),
                             <<Query("orders", ok1), Query("shipment_events", ok2)>>)

ToolTrackLatestStatus ==
    \E order_id \in OrderIdArgs, ok1, ok2 \in BOOLEAN :
        \E t \in FetchOne(Q_tracking_of_order(order_id), ok1) :
            IF NoTrackingNo(t)
            THEN /\ ok2
                 /\ Returned("tool_track_latest_status", [order_id |-> order_id], 0,
                             tool_track_latest_status(order_id, t, Null),
                             <<Query("orders", ok1)>>)
            ELSE \E evt \in FetchOne(Q_last_event(t[1].tracking_no), ok2) :
                    Returned("tool_track_latest_status", [order_id |-> order_id], 0,
                             tool_track_latest_status(order_id, t, evt),
                             <<Query("orders", ok1), Query("shipment_events", ok2)>>)

ToolCheapestDelivery ==
    \E region \in RegionArgs, max_days \in MaxDaysArgs, ok \in BOOLEAN :
        \E row \in FetchOne(Q_cheapest_method(region, max_days), ok) :
            Returned("tool_cheapest_delivery", [region |-> region, max_days |-> max_days], 0,
                     tool_cheapest_delivery(region, max_days, row),
                     <<Query("shipping_methods", ok)>>)

ToolEstimateDeliveryCost ==
    \E region \in RegionArgs, method_name \in MethodNameArgs, ok \in BOOLEAN :
        \E row \in FetchOne(Q_estimate_method(region, method_name), ok) :
            Returned("tool_estimate_delivery_cost",
                     [region |-> region, method_name |-> method_name], 0,
                     tool_estimate_delivery_cost(region, method_name, row),
                     <<Query("shipping_methods", ok)>>)

ToolLastPaymentStatus ==
    \E order_id \in OrderIdArgs, ok \in BOOLEAN :
        \E row \in FetchOne(Q_last_payment(order_id), ok) :
            Returned("tool_last_payment_status", [order_id |-> order_id], 0,
                     tool_last_payment_status(order_id, row),
                     <<Query("payments", ok)>>)

ToolCanRetryPayment ==
    \E order_id \in OrderIdArgs, cooldown_minutes \in CooldownArgs, now \in Clock,
       ok \in BOOLEAN :
        \E row \in FetchOne(Q_payment_status(order_id), ok) :
            Returned("tool_can_retry_payment",
                     [order_id |-> order_id, cooldown_minutes |-> cooldown_minutes], now,
                     tool_can_retry_payment(order_id, cooldown_minutes, row, now),
                     <<Query("payments", ok)>>)

ToolLastReturnStatus ==
    \E order_id \in OrderIdArgs, ok \in BOOLEAN :
        \E row \in FetchOne(Q_last_return(order_id), ok) :
            Returned("tool_last_return_status", [order_id |-> order_id], 0,
                     tool_last_return_status(order_id, row),
                     <<Query("returns", ok)>>)

ToolDeliveryOptionsByRegion ==
    \E region \in RegionArgs, ok \in BOOLEAN :
        \E rows \in FetchAll(Q_methods_by_region(region), ok) :
            Returned("tool_delivery_options_by_region", [region |-> region], 0,
                     tool_delivery_options_by_region(region, rows),
                     <<Query("shipping_methods", ok)>>)

ToolPaymentRetrySteps ==
    \E order_id \in OrderIdArgs, preferred_method \in {Null, Some("PayPal")},
       ok \in BOOLEAN :
        \E row \in FetchOne(Q_last_payment(order_id), ok) :
            Returned("tool_payment_retry_steps",
                     [order_id |-> order_id, preferred_method |-> preferred_method], 0,
                     tool_payment_retry_steps(order_id, preferred_method,
                                              tool_last_payment_status(order_id, row)),
                     <<Query("payments", ok)>>)

ToolRequestReturnLabel ==
    \E order_id \in OrderIdArgs, email \in {"a@example.com", ""} :
        Returned("tool_request_return_label", [order_id |-> order_id, email |-> email], 0,
                 tool_request_return_label(order_id, email), <<>>)

ToolReturnEligibility ==
    \E order_id \in OrderIdArgs, policy_days \in PolicyDaysArgs, now \in Clock,
       ok \in BOOLEAN :
        \E row \in FetchOne(Q_delivered_event(order_id), ok) :
            Returned("tool_return_eligibility",
                     [order_id |-> order_id, policy_days |-> policy_days], now,
                     tool_return_eligibility(order_id, policy_days, row, now),
                     <<Query("shipment_events", ok)>>)

\* ------------------------------------- a tool invocation, step by step

\* the store queries each database tool issues at most; the second query of
\* the tracking tools follows a first one that found its row
ToolQueries ==
    [tool_track_order_basic |-> 2, tool_track_by_tracking_no |-> 2,
     tool_track_latest_status |-> 2, tool_delivery_options_by_region |-> 1,
     tool_cheapest_delivery |-> 1, tool_estimate_delivery_cost |-> 1,
     tool_last_payment_status |-> 1, tool_can_retry_payment |-> 1,
     tool_payment_retry_steps |-> 1, tool_last_return_status |-> 1,
     tool_return_eligibility |-> 1, tool_request_return_label |-> 0]

ConnIdle ==
    /\ conn_pc = "idle"
    /\ conn_tool = "none"
    /\ conn_query = 0
    /\ conn_open = 0
    /\ conn_log = <<>>
    /\ conn_row = "none"

\* the ToolNode calls a tool
ToolInvoked ==
    /\ conn_pc = "idle"
    /\ \E t \in DOMAIN ToolQueries : conn_tool' = t
    /\ conn_pc' = "body"
    /\ conn_query' = 0
    /\ conn_log' = <<>>
    /\ conn_row' = "none"
    /\ UNCHANGED <<conn_open, graphVars, toolVars, ragVars>>

\* the tool's own code between its queries: it calls _fetch_one/_fetch_all for
\* its next query, or returns its result
ToolBody ==
    /\ conn_pc = "body"
    /\ LET more == /\ conn_query < ToolQueries[conn_tool]
                   /\ conn_query > 0 => conn_row = "row"
           \* tool_track_latest_status returns early on a row without tracking_no
           may_stop == ~more \/ (conn_tool = "tool_track_latest_status" /\ conn_query = 1)
       IN \/ more /\ conn_pc' = "connect"
          \/ may_stop /\ conn_pc' = "return"
    /\ UNCHANGED <<conn_tool, conn_query, conn_open, conn_log, conn_row,
                   graphVars, toolVars, ragVars>>

\* `with _connect() as conn`: psycopg.connect gives a connection, or raises
\* into the except clause, which returns None / []
FetchConnect ==
    /\ conn_pc = "connect"
    /\ conn_query' = conn_query + 1
    /\ \/ /\ conn_open' = conn_open + 1
          /\ conn_log' = Append(conn_log, "open")
          /\ conn_pc' = "execute"
          /\ UNCHANGED conn_row
       \/ /\ conn_row' = "error"
          /\ conn_pc' = "body"
          /\ UNCHANGED <<conn_open, conn_log>>
    /\ UNCHANGED <<conn_tool, graphVars, toolVars, ragVars>>

\* cur.execute and cur.fetchone / fetchall inside the with block
FetchExecute ==
    /\ conn_pc = "execute"
    /\ \E outcome \in {"row", "no_row", "error"} : conn_row' = outcome
    /\ conn_pc' = "exit"
    /\ UNCHANGED <<conn_tool, conn_query, conn_open, conn_log, graphVars, toolVars, ragVars>>

FetchExitLeaks ==
    /\ conn_pc = "exit"
    /\ conn_pc' = "body"
    /\ UNCHANGED <<conn_tool, conn_query, conn_row, conn_open, conn_log,
                   graphVars, toolVars, ragVars>>

\* leaving the with block, by return or by exception: the connection is closed
FetchExit ==
    /\ conn_pc = "exit"
    /\ conn_open' = conn_open - 1
    /\ conn_log' = Append(conn_log, "close")
    /\ conn_pc' = "body"
    /\ UNCHANGED <<conn_tool, conn_query, conn_row, graphVars, toolVars, ragVars>>

ToolReturned ==
    /\ conn_pc = "return"
    /\ conn_pc' = "idle"
    /\ UNCHANGED <<conn_tool, conn_query, conn_open, conn_log, conn_row,
                   graphVars, toolVars, ragVars>>

\* ------------------------------------------------- knowledge retrieval

MaxChunks == 3
TopK == 3

KbFiles == <<"returns.md", "shipping.md">>

\* chunk_and_embed_to_chroma.py: chunk p of file f, with its metadata
Chunk(f, p) ==
    [page_content |-> <<f, "#", ToString(p)>>,
     filename |-> Some(f), chunk_index |-> Some(p)]

\* the index after ingestion: file after file, chunk_index 0, 1, ... within a file
KbOf(n1, n2) ==
    [i \in 1..n1 |-> Chunk(KbFiles[1], i - 1)] \o [i \in 1..n2 |-> Chunk(KbFiles[2], i - 1)]

KnowledgeBases == {KbOf(n1, n2) : n1 \in 0..MaxChunks, n2 \in 0..MaxChunks}

Range(f) == {f[i] : i \in DOMAIN f}

Min(a, b) == IF a < b THEN a ELSE b

RECURSIVE DistinctSeqs(_, _)
DistinctSeqs(S, n) ==
    IF n = 0 THEN {<<>>}
    ELSE UNION {{Append(q, x) : x \in S \ Range(q)} : q \in DistinctSeqs(S, n - 1)}

\* vector_db_client.similarity_search(query, k): the k most similar chunks,
\* most similar first; which ones depends on the query and the embedding
SimilaritySearch(k) == DistinctSeqs(Range(kb), Min(k, Len(kb)))

RECURSIVE JoinLines(_)
\* "\n".join(texts)
JoinLines(texts) ==
    IF texts = <<>> THEN <<>>
    ELSE IF Len(texts) = 1 THEN texts[1]
    ELSE texts[1] \o <<"\n">> \o JoinLines(Tail(texts))

NeighborDocsNoPrevious(f, p) ==
    LET Match(c) == c.filename = Some(f) /\ c.chunk_index \in {Some(p), Some(p + 1)}
        found == SelectSeq(kb, Match)
    IN [i \in 1..Len(found) |-> found[i].page_content]

\* vector_db_client.db.get(where filename = f and chunk_index in [p-1, p, p+1])
\* ["documents"]: the matching chunks in storage order
NeighborDocs(f, p) ==
    LET Match(c) == c.filename = Some(f) /\ c.chunk_index \in {Some(p - 1), Some(p), Some(p + 1)}
        found == SelectSeq(kb, Match)
    IN [i \in 1..Len(found) |-> found[i].page_content]

RECURSIVE retrieve_support_docs_keeps_hit(_)
retrieve_support_docs_keeps_hit(results) ==
    IF results = <<>> THEN <<>>
    ELSE LET doc == Head(results)
             own == IF doc.filename # Null /\ doc.chunk_index # Null
                    THEN NeighborDocs(doc.filename[1], doc.chunk_index[1])
                    ELSE <<doc.page_content>>
         IN own \o retrieve_support_docs_keeps_hit(Tail(results))

RECURSIVE retrieve_support_docs_deduplicated(_)
retrieve_support_docs_deduplicated(results) ==
    IF results = <<>> THEN <<>>
    ELSE LET doc == Last(results)
             before == retrieve_support_docs_deduplicated(SubSeq(results, 1, Len(results) - 1))
             own == IF doc.filename # Null /\ doc.chunk_index # Null
                    THEN NeighborDocs(doc.filename[1], doc.chunk_index[1])
                    ELSE <<>>
             IsNew(t) == t \notin Range(before)
         IN before \o SelectSeq(own, IsNew)

RECURSIVE retrieve_support_docs(_)
\* retrieve_support_docs: all_chunks after the loop over the results
retrieve_support_docs(results) ==
    IF results = <<>> THEN <<>>
    ELSE LET doc == Head(results)
             own == IF doc.filename # Null /\ doc.chunk_index # Null
                    THEN NeighborDocs(doc.filename[1], doc.chunk_index[1])
                    ELSE <<>>
         IN own \o retrieve_support_docs(Tail(results))

RagAgentContextWidened(retrieved_docs) == JoinLines(retrieve_support_docs(retrieved_docs))

\* rag_agent: context = "\n".join([doc.page_content for doc in retrieved_docs])
RagAgentContext(retrieved_docs) ==
    JoinLines([i \in 1..Len(retrieved_docs) |-> retrieved_docs[i].page_content])

RagIdle ==
    /\ kb = <<>>
    /\ rag_op = "none"
    /\ hits = <<>>
    /\ rag_out = <<>>

\* the knowledge step up to the prompt it hands to the model
RagAgentRetrieve ==
    \E retrieved_docs \in SimilaritySearch(TopK) :
        /\ hits' = retrieved_docs
        /\ rag_out' = RagAgentContext(retrieved_docs)
        /\ rag_op' = "rag_agent"
        /\ UNCHANGED <<kb, graphVars, toolVars, connVars>>

RetrieveSupportDocs ==
    \E results \in SimilaritySearch(TopK) :
        /\ hits' = results
        /\ rag_out' = retrieve_support_docs(results)
        /\ rag_op' = "retrieve_support_docs"
        /\ UNCHANGED <<kb, graphVars, toolVars, connVars>>

\* ------------------------------------------------------ specifications

\* the tool layer: any tool, with any arguments, against any of the stores
InitTools ==
    /\ GraphInit
    /\ RagIdle
    /\ ConnIdle
    /\ store \in Stores
    /\ tool_call = NoCall
    /\ tool_result = [none |-> TRUE]
    /\ queries = <<>>

NextTools ==
    \/ ToolTrackOrderBasic
    \/ ToolTrackByTrackingNo
    \/ ToolTrackLatestStatus
    \/ ToolCheapestDelivery
    \/ ToolEstimateDeliveryCost
    \/ ToolLastPaymentStatus
    \/ ToolCanRetryPayment
    \/ ToolLastReturnStatus
    \/ ToolReturnEligibility
    \/ ToolDeliveryOptionsByRegion
    \/ ToolPaymentRetrySteps
    \/ ToolRequestReturnLabel

SpecTools == InitTools /\ [][NextTools]_vars

\* knowledge retrieval, against any of the indexes
InitRag ==
    /\ GraphInit
    /\ ToolIdle
    /\ ConnIdle
    /\ kb \in KnowledgeBases
    /\ rag_op = "none"
    /\ hits = <<>>
    /\ rag_out = <<>>

NextRag == RagAgentRetrieve \/ RetrieveSupportDocs

SpecRag == InitRag /\ [][NextRag]_vars

\* documents of the collection that the ingestion script did not write
\* (VectorDBClient.embed_documents stores any Document): metadata without
\* chunk_index, without filename, or without both
ForeignChunks ==
    { [page_content |-> <<"note", "1">>, filename |-> Null, chunk_index |-> Null],
      [page_content |-> <<"note", "2">>, filename |-> Some(KbFiles[1]), chunk_index |-> Null],
      [page_content |-> <<"note", "3">>, filename |-> Null, chunk_index |-> Some(1)] }

\* knowledge retrieval against an index that holds one such document after
\* the chunks of an ingested source
InitRagForeign ==
    /\ GraphInit
    /\ ToolIdle
    /\ ConnIdle
    /\ kb \in {Append(KbOf(n1, 0), c) : n1 \in 0..MaxChunks, c \in ForeignChunks}
    /\ rag_op = "none"
    /\ hits = <<>>
    /\ rag_out = <<>>

SpecRagForeign == InitRagForeign /\ [][NextRag]_vars

\* requests are served one after another: a request starts when no other is in flight
NoneInFlight == \A q \in Requests : pc[q] = "idle"

Init == GraphInit /\ ToolIdle /\ RagIdle /\ ConnIdle

Next ==
    \E r \in Requests :
        \/ NoneInFlight /\ Chat(r)
        \/ NoneInFlight /\ GraphInvoke(r)
        \/ Step(r)
        \/ Finish(r)

Spec == Init /\ [][Next]_vars

\* the chat endpoint is a coroutine that calls graph.invoke synchronously: it
\* holds the event loop until the run is over, so no two chat requests overlap
NoChatInFlight == \A q \in Requests : entry[q] # "chat"

\* runs overlap: graph.invoke called from several threads of the process, each
\* run taking its own graph steps, interleaved with the others'
NextConc ==
    \E r \in Requests :
        \/ NoChatInFlight /\ Chat(r)
        \/ GraphInvoke(r)
        \/ Step(r)
        \/ Finish(r)

SpecConc == Init /\ [][NextConc]_vars

\* the graph runtime runs the next node of a started run; nothing forces a
\* new request to arrive
LiveSpec == Spec /\ \A r \in Requests : WF_vars(Step(r))

\* one tool invocation after another, each followed through its store queries
NextFetch ==
    \/ ToolInvoked
    \/ ToolBody
    \/ FetchConnect
    \/ FetchExecute
    \/ FetchExit
    \/ ToolReturned

SpecFetch == Init /\ [][NextFetch]_vars

\* main.py chat, receiving the utterances that exercise the keyword groups
ChatGeneral(r) ==
    \E utts \in SeqsUpTo(GeneralUtterances, MaxUtterances) :
        Invoke(r, [i \in 1..Len(utts) |-> HumanMessage(utts[i])], "chat")

NextGeneral ==
    \E r \in Requests :
        \/ NoneInFlight /\ ChatGeneral(r)
        \/ NoneInFlight /\ GraphInvoke(r)
        \/ Step(r)
        \/ Finish(r)

SpecGeneral == Init /\ [][NextGeneral]_vars

\* ------------------------------------------------------------ properties

HasUserTurn(conv) == \E i \in 1..Len(conv) : conv[i].type = "human"

LatestUserTurn(conv) ==
    conv[CHOOSE i \in 1..Len(conv) :
            /\ conv[i].type = "human"
            /\ \A j \in (i + 1)..Len(conv) : conv[j].type # "human"]

\* C1: in every request the classifier step runs exactly once, before any
\* handler; exactly one of the four handlers is entered, the one mapped from
\* the label this request's classifier produced; no request enters two
\* handlers and none completes without entering one.
C1_ClassifyOnceOneHandler ==
    \A r \in Requests :
        /\ runs[r] <= 1
        /\ pc[r] \in Handlers \cup {"tools", "END"} => Cardinality(entered[r]) = 1
        /\ pc[r] \in Handlers => entered[r] = {pc[r]}
        /\ pc[r] = "tools" => entered[r] = {"react_tool_agent"}
        /\ result[r].kind \in {"response", "state"} => Cardinality(entered[r]) = 1
        /\ entered[r] # {} =>
              /\ runs[r] = 1
              /\ classified[r] # Null
              /\ entered[r] = {RouteMap(classified[r][1])}

C1_Witness ==
    \E r \in Requests :
        /\ pc[r] = "END"
        /\ classified[r] = Some(L_rag)
        /\ entered[r] = {"rag_agent"}
        /\ runs[r] = 1

\* C2: the classifier sets the routing decision to 'general' when the
\* conversation is empty, has no user turn, or its latest user turn has empty
\* text, or when the model's output, stripped and lower-cased, is not one of
\* the four labels; otherwise the decision is the normalized output; so the
\* decision is always one of the four labels.
C2_ClassifierDecision ==
    \A r \in Requests :
        pc[r] = "routing_condition" =>
            LET conv == messages[r]
                noText == \/ conv = <<>>
                          \/ ~HasUserTurn(conv)
                          \/ LatestUserTurn(conv).content = <<>>
            IN /\ routing_decision \in Labels
               /\ noText => routing_decision = L_general /\ raw[r] = Null
               /\ ~noText =>
                     /\ raw[r] # Null
                     /\ LET norm == StrLower(StrStrip(raw[r][1]))
                        IN routing_decision = IF norm \in Labels THEN norm ELSE L_general

C2_Witness ==
    \E r \in Requests :
        /\ pc[r] = "routing_condition"
        /\ raw[r] = Some(<<" ","T","o","o","l","s","\n">>)
        /\ routing_decision = L_tools

\* C3: with the classifier and branch steps of two requests interleaved in
\* any order, each request is dispatched to the handler of the label its own
\* classifier step produced.
C3_OwnLabelDispatch ==
    \A r \in Requests :
        entered[r] # {} =>
            classified[r] # Null /\ entered[r] = {RouteMap(classified[r][1])}

\* C4: a failure of any external call of a request makes the request complete
\* with a canned or empty response turn; none ends the request without a
\* response.
C4_FailureDegrades ==
    \A r \in Requests :
        failed[r] # "none" =>
            /\ pc[r] # "raised"
            /\ pc[r] = "returned" => result[r].kind \in {"response", "state"}

\* C5 as stated: once tool results are appended and control is back in the
\* tool-using step, the model can again request tools.
C5_ModelCanRequestAgain ==
    \A r \in Requests :
        (pc[r] = "react_tool_agent" /\ rounds[r] >= 1) =>
            \E tcs \in ToolCallChoices(ReactOfferedTools(messages[r])) : tcs # <<>>

\* C5 (amended): back from tool execution the model is invoked without tools,
\* its response carries no tool request and the graph completes: a request
\* goes through at most one round of tool execution.
C5_AtMostOneToolRound ==
    \A r \in Requests :
        /\ rounds[r] <= 1
        /\ pc[r] = "tools" => rounds[r] = 0
        /\ (rounds[r] = 1 /\ (pc[r] = "END" \/ result[r].kind \in {"response", "state"})) =>
              /\ Last(messages[r]).type = "ai"
              /\ Last(messages[r]).tool_calls = <<>>

C5_Witness ==
    \E r \in Requests :
        /\ rounds[r] = 1
        /\ pc[r] = "END"
        /\ \E i \in 1..Len(messages[r]) : messages[r][i].type = "tool"

\* C6: every request whose external calls all return reaches completion of
\* the graph (a run leaves the graph otherwise only after a call failed); on
\* the tool path the graph completes at the first model response without tool
\* requests, and not before.
C6_ReachesCompletion ==
    /\ \A r \in Requests :
          (pc[r] = "unified_intent_classifier") ~> (pc[r] = "END" \/ pc[r] = "raised")
    /\ [](\A r \in Requests : pc[r] = "raised" => failed[r] \notin {"none", "store_query"})
    /\ [][\A r \in Requests :
            (pc[r] = "react_tool_agent" /\ pc'[r] \notin {"react_tool_agent", "raised"}) =>
                pc'[r] = IF Last(messages'[r]).tool_calls = <<>> THEN "END" ELSE "tools"]_vars

C6_Witness ==
    \E r \in Requests :
        /\ pc[r] = "END"
        /\ entered[r] = {"react_tool_agent"}
        /\ failed[r] = "none"
        /\ Len(messages[r]) > Len(initial[r]) + 2

\* C8: in the knowledge step a failure of the vector search or of the model
\* call is caught inside the step, which appends exactly one assistant turn
\* with the fixed apology; the request still completes.
C8_RagFailureApology ==
    \A r \in Requests :
        failed[r] \in {"rag_search_fails", "rag_model_fails"} =>
            /\ pc[r] \in {"END", "returned"}
            /\ messages[r] = Append(initial[r], AIMessage(T_rag_apology, <<>>))
            /\ pc[r] = "returned" => result[r].kind \in {"response", "state"}

C8_Witness ==
    \E r \in Requests :
        /\ failed[r] = "rag_search_fails"
        /\ pc[r] = "returned"
        /\ result[r] = [kind |-> "response", content |-> T_rag_apology]

\* the passages C7 describes: per hit, in retrieval order, the chunks of the
\* same source at positions p-1, p, p+1 that exist
WindowOf(doc) ==
    LET At(q) == {c \in Range(kb) : c.filename = doc.filename /\ c.chunk_index = Some(q)}
        One(q) == IF At(q) = {} THEN <<>> ELSE <<(CHOOSE c \in At(q) : TRUE).page_content>>
        p == doc.chunk_index[1]
    IN One(p - 1) \o One(p) \o One(p + 1)

RECURSIVE Windows(_)
Windows(docs) == IF docs = <<>> THEN <<>> ELSE WindowOf(Head(docs)) \o Windows(Tail(docs))

HasNeighborOutsideHits ==
    \E i \in 1..Len(hits) : \E c \in Range(kb) \ Range(hits) :
        /\ c.filename = hits[i].filename
        /\ c.chunk_index \in {Some(hits[i].chunk_index[1] - 1), Some(hits[i].chunk_index[1] + 1)}

\* C7 as stated: the context of the knowledge step is the concatenation, in
\* retrieval order, of every hit widened by the chunks at p-1 and p+1 of its source.
C7_ContextWidened ==
    rag_op = "rag_agent" => rag_out = JoinLines(Windows(hits))

\* C7 (amended): the context of the knowledge step is the newline-joined
\* passages of the K similarity hits alone, in retrieval order; no chunk that
\* is not itself a hit is part of it.
C7_ContextIsHitsOnly ==
    rag_op = "rag_agent" =>
        /\ Len(hits) <= TopK
        /\ rag_out = JoinLines([i \in 1..Len(hits) |-> hits[i].page_content])
        /\ \A c \in Range(kb) : Contains(rag_out, c.page_content) <=> c \in Range(hits)

C7_Witness ==
    /\ rag_op = "rag_agent"
    /\ Len(hits) = TopK
    /\ HasNeighborOutsideHits

\* the key the caller passed in, by tool
IdKeys(tool) ==
    CASE tool \in {"tool_track_order_basic", "tool_track_latest_status",
                   "tool_last_payment_status", "tool_last_return_status"} -> {"order_id"}
      [] tool = "tool_track_by_tracking_no" -> {"tracking_no"}
      [] tool \in {"tool_cheapest_delivery", "tool_estimate_delivery_cost"} -> {"region"}
      [] OTHER -> {}

\* C9: a result with found = false holds no field besides the discriminator
\* and the identifying key the caller passed in.
C9_NotFoundHasNoDomainFields ==
    ("found" \in DOMAIN tool_result /\ ~tool_result.found) =>
        DOMAIN tool_result \subseteq {"found"} \cup IdKeys(tool_call.tool)

\* the payment rows of the order with the most recent attempt
MostRecentPayments(order_id) ==
    LET ps == {x \in store.payments : x.order_id = order_id /\ x.last_attempt # Null}
    IN {x \in ps : \A y \in ps : y.last_attempt[1] <= x.last_attempt[1]}

\* C10: tool_can_retry_payment, for the payment row with the most recent
\* attempt: a status other than 'failed' (case-insensitive) gives
\* allowed = false whatever the elapsed time; the failure status gives
\* allowed = false when the elapsed time is below cooldown_minutes and
\* allowed = true when it is equal or above.
C10_RetryAfterCooldown ==
    (/\ tool_call.tool = "tool_can_retry_payment"
     /\ queries[1].ok
     /\ MostRecentPayments(tool_call.args.order_id) # {}) =>
        \E row \in MostRecentPayments(tool_call.args.order_id) :
            LET elapsed == tool_call.now - row.last_attempt[1]
                cooldown == tool_call.args.cooldown_minutes * TicksPerMinute
            IN IF StrLower(row.status) # S_failed
               THEN tool_result.allowed = FALSE
               ELSE tool_result.allowed = (elapsed >= cooldown)

C10_Witness ==
    /\ tool_call.tool = "tool_can_retry_payment"
    /\ queries[1].ok
    /\ tool_call.args.cooldown_minutes > 0
    /\ \E row \in MostRecentPayments(tool_call.args.order_id) :
          /\ row.status = S_FAILED
          /\ tool_call.now - row.last_attempt[1]
                = tool_call.args.cooldown_minutes * TicksPerMinute
    /\ tool_result.allowed

\* the shipment events of the order whose status starts with 'Delivered'
\* (letters compared without case, as the store's ILIKE does)
DeliveredEvents(order_id) ==
    {e \in store.shipment_events :
        /\ \E o \in store.orders : o.order_id = order_id /\ o.tracking_no = Some(e.tracking_no)
        /\ Len(e.status) >= 9
        /\ StrLower(SubSeq(e.status, 1, 9)) = <<"d","e","l","i","v","e","r","e","d">>}

\* C11: tool_return_eligibility returns eligible = false when the order has no
\* shipment event whose status starts with 'Delivered'; otherwise, with N the
\* whole days elapsed since the most recent such event and W = policy_days,
\* eligible = true iff N <= W.
C11_ReturnEligibility ==
    (tool_call.tool = "tool_return_eligibility" /\ queries[1].ok) =>
        LET evs == DeliveredEvents(tool_call.args.order_id)
        IN IF evs = {} THEN tool_result.eligible = FALSE
           ELSE LET latest == CHOOSE e \in evs : \A y \in evs : y.event_time <= e.event_time
                    N == (tool_call.now - latest.event_time) \div TicksPerDay
                IN tool_result.eligible = (N <= tool_call.args.policy_days)

C11_Witness ==
    /\ tool_call.tool = "tool_return_eligibility"
    /\ queries[1].ok
    /\ tool_call.args.policy_days >= 1
    /\ Cardinality(DeliveredEvents(tool_call.args.order_id)) >= 2
    /\ "days_since_delivery" \in DOMAIN tool_result
    /\ tool_result.days_since_delivery = tool_call.args.policy_days
    /\ tool_result.eligible

\* the empty/not-found result of a tool: its discriminator is false, or its
\* list of rows is empty
EmptyResult(res) ==
    \/ "found" \in DOMAIN res /\ ~res.found
    \/ "allowed" \in DOMAIN res /\ ~res.allowed
    \/ "eligible" \in DOMAIN res /\ ~res.eligible
    \/ "ok" \in DOMAIN res /\ ~res.ok
    \/ "methods" \in DOMAIN res /\ res.methods = <<>>

\* C12 as stated: whichever store query of a tool fails, the tool returns its
\* empty/not-found result.
C12_StoreErrorGivesNotFound ==
    (\E i \in 1..Len(queries) : ~queries[i].ok) => EmptyResult(tool_result)

\* C12 (amended): a store error never leaves the tool; the failing query
\* counts as having returned no row.  When the first or only query fails the
\* result is the tool's empty/not-found result; when the second query fails
\* after the first found the order, tool_track_order_basic and
\* tool_track_by_tracking_no return found = true with a null last event, and
\* tool_track_latest_status returns found = false with latest = null.
C12_StoreErrorAsNoRow ==
    /\ (queries # <<>> /\ ~queries[1].ok) => EmptyResult(tool_result)
    /\ (Len(queries) = 2 /\ queries[1].ok /\ ~queries[2].ok) =>
          CASE tool_call.tool = "tool_track_order_basic" ->
                  tool_result.found /\ tool_result.last_shipment_event = Null
            [] tool_call.tool = "tool_track_by_tracking_no" ->
                  tool_result.found /\ tool_result.last_event = Null
            [] tool_call.tool = "tool_track_latest_status" ->
                  ~tool_result.found /\ tool_result.latest = Null
            [] OTHER -> FALSE

C12_Witness ==
    /\ tool_call.tool = "tool_track_order_basic"
    /\ Len(queries) = 2 /\ queries[1].ok /\ ~queries[2].ok
    /\ \E e \in store.shipment_events : Some(e.tracking_no) = tool_result.tracking_no
    /\ tool_result.found
    /\ tool_result.last_shipment_event = Null

\* a conversation with no non-empty user turn (the empty one included)
NoUserText(conv) == \A i \in 1..Len(conv) : conv[i].type = "human" => conv[i].content = <<>>

\* C13: a request with an empty utterance list, or with no non-empty user
\* turn, is routed to the conversational step and answered with the fixed
\* default greeting; no external call is made at any step of it.
C13_EmptyInputGreeting ==
    \A r \in Requests :
        (pc[r] # "idle" /\ NoUserText(initial[r])) =>
            /\ calls[r] = {}
            /\ failed[r] = "none"
            /\ pc[r] # "raised"
            /\ entered[r] \subseteq {"general_response"}
            /\ pc[r] \in {"END", "returned"} =>
                  /\ entered[r] = {"general_response"}
                  /\ messages[r] = Append(initial[r], AIMessage(T_hello, <<>>))
            /\ (pc[r] = "returned" /\ entry[r] = "chat") =>
                  result[r] = [kind |-> "response", content |-> T_hello]

C13_Witness ==
    \E r \in Requests :
        /\ initial[r] = <<>>
        /\ entry[r] = "chat"
        /\ pc[r] = "returned"
        /\ calls[r] = {}
        /\ result[r] = [kind |-> "response", content |-> T_hello]

\* C14: the tool-execution step is entered only in requests classified
\* tool-use; in a request classified conversational, knowledge or unsupported
\* no tool is executed and no store query is issued, whatever the model outputs.
C14_ToolsOnlyOnToolPath ==
    \A r \in Requests :
        /\ (pc[r] = "tools" \/ rounds[r] > 0) => classified[r] = Some(L_tools)
        /\ (classified[r] # Null /\ classified[r][1] # L_tools) =>
              /\ pc[r] \notin {"tools", "react_tool_agent"}
              /\ rounds[r] = 0
              /\ "store" \notin calls[r]
              /\ \A i \in 1..Len(messages[r]) :
                    messages[r][i].type = "tool" => i <= Len(initial[r])

C14_Witness ==
    \E r \in Requests :
        /\ classified[r] = Some(L_general)
        /\ entered[r] = {"general_response"}
        /\ "model" \in calls[r]
        /\ Last(messages[r]).content = T_answer
        /\ pc[r] = "END"
        /\ rounds[r] = 0

\* C15: the refusal step appends exactly one assistant turn, with the same
\* fixed text whatever the conversation, makes no external call, and leads to
\* completion.
C15_RefusalIsFixed ==
    /\ [](\A r \in Requests :
            (entered[r] = {"cannot_help"} /\ pc[r] \in {"END", "returned"}) =>
                messages[r] = Append(initial[r], AIMessage(T_refusal, <<>>)))
    /\ [][\A r \in Requests :
            (pc[r] = "cannot_help" /\ pc'[r] # "cannot_help") =>
                /\ pc'[r] = "END"
                /\ messages'[r] = Append(messages[r], AIMessage(T_refusal, <<>>))
                /\ calls'[r] = calls[r]
                /\ failed'[r] = failed[r]]_vars

C15_Witness ==
    \E r \in Requests :
        /\ initial[r] = <<HumanMessage(U_hi)>>
        /\ entered[r] = {"cannot_help"}
        /\ pc[r] = "returned"
        /\ result[r] = [kind |-> "response", content |-> T_refusal]

\* C16: retrieve_support_docs returns, for every similarity hit at position p
\* of source f, the chunks stored for f at positions p-1, p and p+1 that
\* exist, and nothing else; a missing p-1 or p+1 is no failure.  Stated per
\* chunk: it is returned once for every hit it is, or is adjacent to, in its source.
C16_NeighborsReturned ==
    rag_op = "retrieve_support_docs" =>
        /\ \A c \in Range(kb) :
              Cardinality({i \in 1..Len(rag_out) : rag_out[i] = c.page_content})
                = Cardinality({i \in 1..Len(hits) :
                                 /\ hits[i].filename = c.filename
                                 /\ c.chunk_index[1] - hits[i].chunk_index[1] \in {-1, 0, 1}})
        /\ \A i \in 1..Len(rag_out) : \E c \in Range(kb) : rag_out[i] = c.page_content

C16_Witness ==
    /\ rag_op = "retrieve_support_docs"
    /\ Len(hits) = TopK
    /\ \E i \in 1..Len(hits) :
          /\ hits[i].chunk_index = Some(0)
          /\ \E c \in Range(kb) : c.filename = hits[i].filename /\ c.chunk_index = Some(1)
    /\ \E i \in 1..Len(hits) :
          /\ hits[i].chunk_index # Some(0)
          /\ \A c \in Range(kb) :
                c.filename = hits[i].filename => c.chunk_index[1] <= hits[i].chunk_index[1]
    /\ Len(rag_out) > Len(hits)

\* C17: the chat endpoint's response for a completed graph run is the text of
\* the last turn of the final conversation, and that turn is the one the
\* terminal step of this request appended.
C17_ResponseIsLastTurn ==
    /\ [](\A r \in Requests :
            (entry[r] = "chat" /\ result[r].kind = "response") =>
                /\ Len(messages[r]) > Len(initial[r])
                /\ result[r].content = Last(messages[r]).content
                /\ Last(messages[r]).type = "ai")
    /\ [][\A r \in Requests :
            (pc[r] # "END" /\ pc'[r] = "END") =>
                /\ pc[r] \in Handlers
                /\ Len(messages'[r]) = Len(messages[r]) + 1
                /\ SubSeq(messages'[r], 1, Len(messages[r])) = messages[r]]_vars
    /\ [][\A r \in Requests :
            (pc[r] = "END" /\ pc'[r] # "END") =>
                /\ pc'[r] = "returned"
                /\ messages'[r] = messages[r]
                /\ entry[r] = "chat" =>
                      result'[r] = [kind |-> "response",
                                    content |-> Last(messages[r]).content]]_vars

C17_Witness ==
    \E r \in Requests :
        /\ entry[r] = "chat"
        /\ pc[r] = "returned"
        /\ rounds[r] = 1
        /\ result[r] = [kind |-> "response", content |-> T_answer]
        /\ messages[r][1].content # T_answer

HasFlag(res, k) == k \in DOMAIN res /\ res[k] \in BOOLEAN

\* C18 as stated: every result of each of the twelve database tools holds a
\* boolean named found, eligible or allowed.
C18_DiscriminatorAlways ==
    tool_call.tool # "none" =>
        \E k \in {"found", "eligible", "allowed"} : HasFlag(tool_result, k)

\* C18 (amended): on every path, the seven lookup tools return a boolean
\* found, tool_can_retry_payment a boolean allowed and tool_return_eligibility
\* a boolean eligible; tool_payment_retry_steps returns a boolean ok instead,
\* tool_request_return_label returns created = true, and
\* tool_delivery_options_by_region returns no boolean at all, only the region
\* and the list of methods.
C18_DiscriminatorPerTool ==
    LET t == tool_call.tool
        flags == {k \in {"found", "eligible", "allowed", "ok", "created"} :
                     HasFlag(tool_result, k)}
    IN t # "none" =>
         CASE t \in {"tool_track_order_basic", "tool_track_by_tracking_no",
                     "tool_track_latest_status", "tool_cheapest_delivery",
                     "tool_estimate_delivery_cost", "tool_last_payment_status",
                     "tool_last_return_status"} -> flags = {"found"}
           [] t = "tool_can_retry_payment" -> flags = {"allowed"}
           [] t = "tool_return_eligibility" -> flags = {"eligible"}
           [] t = "tool_payment_retry_steps" -> flags = {"ok"}
           [] t = "tool_request_return_label" -> flags = {"created"} /\ tool_result.created
           [] t = "tool_delivery_options_by_region" ->
                 flags = {} /\ DOMAIN tool_result = {"region", "methods"}
           [] OTHER -> FALSE

C18_Witness ==
    /\ tool_call.tool = "tool_delivery_options_by_region"
    /\ ~queries[1].ok
    /\ \E m \in store.shipping_methods : m.region = tool_call.args.region
    /\ tool_result = [region |-> tool_call.args.region, methods |-> <<>>]

\* C19: from the tool-using step the graph moves to tool execution iff the
\* last turn is a model response carrying tool calls, and completes
\* otherwise; after tool execution control returns to the tool-using step
\* and nowhere else.
C19_ToolLoopEdges ==
    /\ [][\A r \in Requests :
            (pc[r] = "react_tool_agent" /\ pc'[r] \notin {"react_tool_agent", "raised"}) =>
                LET last == Last(messages'[r])
                    asks == last.type = "ai" /\ Len(last.tool_calls) >= 1
                IN /\ asks <=> pc'[r] = "tools"
                   /\ ~asks <=> pc'[r] = "END"]_vars
    /\ [][\A r \in Requests :
            (pc[r] = "tools" /\ pc'[r] # "tools") =>
                /\ pc'[r] = "react_tool_agent"
                /\ Last(messages'[r]).type = "tool"]_vars

C19_Witness ==
    \E r \in Requests :
        /\ pc[r] = "react_tool_agent"
        /\ rounds[r] = 1
        /\ Last(messages[r]).type = "tool"
        /\ \E i \in 1..Len(messages[r]) : Len(messages[r][i].tool_calls) = MaxToolCalls

\* C20: every store connection a tool invocation opens is closed before the
\* invocation returns, whatever the query did; the invocation never holds
\* more than one open connection; a tool that issues two queries opens and
\* closes one connection for each.
C20_ConnectionPerQuery ==
    /\ conn_open \in {0, 1}
    /\ conn_pc \in {"idle", "body", "connect", "return"} => conn_open = 0
    /\ \A i \in 1..Len(conn_log) :
          conn_log[i] = IF i % 2 = 1 THEN "open" ELSE "close"
    /\ Len(conn_log) <= 2 * conn_query
    /\ conn_pc \in {"exit", "execute"} =>
          conn_open = 1 /\ Len(conn_log) = 2 * conn_query - 1

C20_Witness ==
    /\ conn_pc = "idle"
    /\ conn_tool = "tool_track_order_basic"
    /\ conn_query = 2
    /\ conn_row = "error"
    /\ conn_log = <<"open", "close", "open", "close">>
    /\ conn_open = 0

\* the keyword groups of the conversational step with their canned answers,
\* in the order the claim gives
KeywordGroups ==
    << [words |-> KW_greeting, answer |-> T_greeting],
       [words |-> KW_capability, answer |-> T_capability],
       [words |-> KW_gratitude, answer |-> T_gratitude],
       [words |-> KW_curiosity, answer |-> T_curiosity] >>

MatchingGroups(text) ==
    {g \in 1..Len(KeywordGroups) : AnyWordIn(KeywordGroups[g].words, StrLower(text))}

FirstMatching(text) ==
    CHOOSE g \in MatchingGroups(text) : \A h \in MatchingGroups(text) : g <= h

\* C21: the conversational step, for a non-empty latest user utterance,
\* tests the keyword groups greeting, capability, gratitude, curiosity in
\* that order against the lower-cased utterance by substring containment;
\* when a group matches it appends the canned answer of the first matching
\* group and calls the model not at all; it calls the model exactly once
\* iff no group matches.
C21_KeywordGroupsInOrder ==
    [][\A r \in Requests :
          (GeneralResponse(r) /\ get_last_human_message(messages[r]) # <<>>) =>
              LET text == get_last_human_message(messages[r])
                  made == llm_calls'[r] - llm_calls[r]
              IN /\ made \in {0, 1}
                 /\ made = 1 <=> MatchingGroups(text) = {}
                 /\ MatchingGroups(text) # {} =>
                       messages'[r] = Append(messages[r],
                           AIMessage(KeywordGroups[FirstMatching(text)].answer, <<>>))]_vars

\* a request whose utterance matches the gratitude group by an earlier word
\* and the capability group by a later one was answered with the capability
\* answer, the classifier's call being the only model call
C21_Witness ==
    \E r \in Requests :
        /\ pc[r] = "END"
        /\ entered[r] = {"general_response"}
        /\ initial[r] = <<HumanMessage(<<"t","h","a","n","k","s",","," ","h","e","l","p">>)>>
        /\ Last(messages[r]).content = T_capability
        /\ llm_calls[r] = 1

IsPrefix(old, new) == Len(old) <= Len(new) /\ SubSeq(new, 1, Len(old)) = old

\* C22: within one request the conversation is append-only: after every
\* step of the graph the previous turn sequence is a prefix of the new one;
\* the classifier step appends nothing; the knowledge, conversational and
\* refusal steps, when they return, append exactly one assistant turn; each
\* visit of the tool-using step that returns appends exactly one model
\* response.
C22_AppendOnly ==
    [][\A r \in Requests :
          Step(r) =>
              LET old == messages[r]
                  new == messages'[r]
              IN /\ IsPrefix(old, new)
                 /\ pc[r] = "unified_intent_classifier" => new = old
                 /\ (pc[r] \in {"rag_agent", "general_response", "cannot_help"}
                        /\ pc'[r] # "raised") =>
                       /\ Len(new) = Len(old) + 1
                       /\ Last(new).type = "ai"
                       /\ Last(new).tool_calls = <<>>
                 /\ (pc[r] = "react_tool_agent" /\ pc'[r] # "raised") =>
                       /\ Len(new) = Len(old) + 1
                       /\ Last(new).type = "ai"
                       /\ Last(new).content = T_answer]_vars

\* a run over a conversation with history went through a tool round: the
\* history is still in front, followed by the model's request, the tool
\* results and the model's answer
C22_Witness ==
    \E r \in Requests :
        /\ pc[r] = "END"
        /\ rounds[r] = 1
        /\ Len(initial[r]) = 2
        /\ IsPrefix(initial[r], messages[r])
        /\ Len(messages[r]) >= Len(initial[r]) + 3

\* the number of stored chunks in the adjacency window of a hit
WindowSize(doc) ==
    IF doc.filename = Null \/ doc.chunk_index = Null THEN 0
    ELSE Cardinality({c \in Range(kb) :
                        /\ c.filename = doc.filename
                        /\ c.chunk_index # Null
                        /\ c.chunk_index[1] - doc.chunk_index[1] \in {-1, 0, 1}})

RECURSIVE SumWindowSizes(_)
SumWindowSizes(docs) ==
    IF docs = <<>> THEN 0 ELSE WindowSize(Head(docs)) + SumWindowSizes(Tail(docs))

WindowsOverlap ==
    \E i, j \in 1..Len(hits) :
        /\ i # j
        /\ hits[i].filename # Null /\ hits[i].chunk_index # Null
        /\ hits[j].filename = hits[i].filename /\ hits[j].chunk_index # Null
        /\ hits[j].chunk_index[1] - hits[i].chunk_index[1] \in {1, 2}
        /\ \E c \in Range(kb) :
              /\ c.filename = hits[i].filename
              /\ c.chunk_index = Some(hits[i].chunk_index[1] + 1)

\* C23: retrieve_support_docs does not deduplicate: the length of its result
\* is the sum over the hits of the number of stored chunks in the hit's
\* window, and when the windows of two hits overlap a passage is in the
\* result more than once.
C23_NoDeduplication ==
    rag_op = "retrieve_support_docs" =>
        /\ Len(rag_out) = SumWindowSizes(hits)
        /\ WindowsOverlap =>
              \E a, b \in 1..Len(rag_out) : a < b /\ rag_out[a] = rag_out[b]

\* hits at positions p and p+1 of one source: the two chunks are returned twice each
C23_Witness ==
    /\ rag_op = "retrieve_support_docs"
    /\ \E i, j \in 1..Len(hits) :
          /\ hits[i].filename = hits[j].filename
          /\ hits[i].chunk_index # Null /\ hits[j].chunk_index # Null
          /\ hits[j].chunk_index[1] = hits[i].chunk_index[1] + 1
          /\ Cardinality({a \in 1..Len(rag_out) : rag_out[a] = hits[i].page_content}) >= 2
          /\ Cardinality({a \in 1..Len(rag_out) : rag_out[a] = hits[j].page_content}) >= 2
    /\ Len(rag_out) > Cardinality(Range(rag_out))

TrackingTools ==
    {"tool_track_order_basic", "tool_track_by_tracking_no", "tool_track_latest_status"}

\* the last event a tracking tool reported, under the key that tool uses
ReportedEvent ==
    CASE tool_call.tool = "tool_track_order_basic" -> tool_result.last_shipment_event
      [] tool_call.tool = "tool_track_by_tracking_no" -> tool_result.last_event
      [] tool_call.tool = "tool_track_latest_status" -> tool_result.latest

\* the events of the store that carry the tracking number of the order asked about
EventsOfAskedOrder ==
    LET asked == IF tool_call.tool = "tool_track_by_tracking_no"
                 THEN {o \in store.orders : o.tracking_no = Some(tool_call.args.tracking_no)}
                 ELSE {o \in store.orders : o.order_id = tool_call.args.order_id}
    IN {e \in store.shipment_events : \E o \in asked : o.tracking_no = Some(e.tracking_no)}

AllQueriesOk == \A i \in 1..Len(queries) : queries[i].ok

\* C24: for an order that exists and has shipment events, the last event the
\* three tracking tools report (the store answering its queries) is the event
\* of greatest event_time among those carrying the order's tracking number,
\* with that event's status and location; for order 1001 with the three
\* seeded events it is 'In Transit' at 'Newark, NJ'.
C24_LastEventIsLatest ==
    (tool_call.tool \in TrackingTools /\ AllQueriesOk /\ EventsOfAskedOrder # {}) =>
        /\ ReportedEvent # Null
        /\ \E e \in EventsOfAskedOrder :
              /\ \A y \in EventsOfAskedOrder : y.event_time <= e.event_time
              /\ ReportedEvent[1].event_time = IsoFormat(e.event_time)
              /\ ReportedEvent[1].status = e.status
              /\ ReportedEvent[1].location = e.location
        /\ (store.orders = {O_shipped} /\ store.shipment_events = EventCatalog) =>
              /\ ReportedEvent[1].status = S_InTransit
              /\ ReportedEvent[1].location = Some("Newark, NJ")

\* tool_track_order_basic(1001) against the seeded order and its three events
C24_Witness ==
    /\ tool_call.tool = "tool_track_order_basic"
    /\ tool_call.args.order_id = 1001
    /\ AllQueriesOk
    /\ store.orders = {O_shipped}
    /\ store.shipment_events = EventCatalog
    /\ tool_result.found
    /\ tool_result.last_shipment_event # Null
    /\ tool_result.last_shipment_event[1].location = Some("Newark, NJ")

\* C25: with requests served one after another, the handler a request is
\* dispatched to is a function of that request's own conversation and its
\* own classifier output, whatever routing decision an earlier request left:
\* every classifier step that returns assigns the routing decision, the
\* branch then maps that decision, and a request whose classifier call
\* raises ends without the branch being taken.
C25_DispatchIgnoresEarlierDecision ==
    /\ [][\A r \in Requests :
            (pc[r] = "unified_intent_classifier" /\ pc'[r] = "routing_condition") =>
                routing_decision' =
                    ClassifierDecision(messages[r],
                                       IF raw'[r] = Null THEN <<>> ELSE raw'[r][1])]_vars
    /\ [][\A r \in Requests :
            Route(r) =>
                pc'[r] = RouteMap(ClassifierDecision(messages[r],
                                     IF raw[r] = Null THEN <<>> ELSE raw[r][1]))]_vars
    /\ [](\A r \in Requests :
            failed[r] = "classifier_model" =>
                entered[r] = {} /\ pc[r] \in {"raised", "returned"})

\* an earlier request left the decision 'cannot_help'; the classifier call of
\* this request raised, and the request ended with no handler entered
C25_Witness ==
    \E r \in Requests :
        /\ routing_decision = L_cannot_help
        /\ failed[r] = "classifier_model"
        /\ classified[r] = Null
        /\ entered[r] = {}
        /\ pc[r] = "returned"
        /\ result[r].kind = "error"

\* C26: whenever the graph completes normally the last turn of the
\* conversation is an assistant turn appended during this request and
\* carrying no tool calls, never a user turn or a tool-result turn; so for a
\* completed run the chat endpoint returns the text of that assistant turn
\* (a turn it was not given, and no tool result), not the 'No response
\* generated' fallback.
C26_CompletedRunEndsWithAnswer ==
    \A r \in Requests :
        /\ pc[r] = "END" =>
              /\ Len(messages[r]) > Len(initial[r])
              /\ Last(messages[r]).type = "ai"
              /\ Last(messages[r]).tool_calls = <<>>
        /\ (entry[r] = "chat" /\ result[r].kind = "response") =>
              /\ result[r].content # T_no_response
              /\ \E i \in (Len(initial[r]) + 1)..Len(messages[r]) :
                    /\ messages[r][i].type = "ai"
                    /\ messages[r][i].tool_calls = <<>>
                    /\ i = Len(messages[r])
                    /\ result[r].content = messages[r][i].content

\* a chat request with no utterance at all completed: the conversation holds
\* the one assistant turn of the conversational step
C26_Witness ==
    \E r \in Requests :
        /\ entry[r] = "chat"
        /\ initial[r] = <<>>
        /\ pc[r] = "END"
        /\ Len(messages[r]) = 1
        /\ Last(messages[r]).type = "ai"

SecondQueryFailed == Len(queries) = 2 /\ queries[1].ok /\ ~queries[2].ok

\* C27: in tool_track_order_basic and tool_track_by_tracking_no a store error
\* on the shipment-event query, the order lookup having succeeded, gives a
\* result with found = true and a null last event, the very result the tool
\* gives for that order when it has no shipment events; the discriminator
\* does not show the error.
C27_EventQueryErrorLooksLikeNoEvents ==
    /\ (tool_call.tool = "tool_track_order_basic" /\ SecondQueryFailed) =>
          /\ tool_result.found = TRUE
          /\ tool_result.last_shipment_event = Null
          /\ \E order \in Q_order_by_id(tool_call.args.order_id) :
                tool_result = tool_track_order_basic(tool_call.args.order_id, Some(order), Null)
    /\ (tool_call.tool = "tool_track_by_tracking_no" /\ SecondQueryFailed) =>
          /\ tool_result.found = TRUE
          /\ tool_result.last_event = Null
          /\ \E order \in Q_order_by_tracking(tool_call.args.tracking_no) :
                tool_result =
                    tool_track_by_tracking_no(tool_call.args.tracking_no, Some(order), Null)

\* tool_track_by_tracking_no on a parcel that has events, the event query failing
C27_Witness ==
    /\ tool_call.tool = "tool_track_by_tracking_no"
    /\ SecondQueryFailed
    /\ \E e \in store.shipment_events : e.tracking_no = tool_call.args.tracking_no
    /\ tool_result.found
    /\ tool_result.last_event = Null

PaymentsOf(order_id) == {x \in store.payments : x.order_id = order_id}

\* C28: tool_can_retry_payment returns allowed = false and no
\* next_retry_after when the order has no payment row or the store query
\* fails; it returns allowed = true with next_retry_after equal to the
\* current time when the last status is the failure state and the row has no
\* attempt time (the only value of the column that is not a timestamp here).
C28_RetryWithoutPaymentOrAttemptTime ==
    tool_call.tool = "tool_can_retry_payment" =>
        LET ps == PaymentsOf(tool_call.args.order_id)
        IN /\ (~queries[1].ok \/ ps = {}) =>
                 /\ tool_result.allowed = FALSE
                 /\ "next_retry_after" \notin DOMAIN tool_result
           /\ (/\ queries[1].ok
               /\ ps # {}
               /\ \A x \in ps : x.last_attempt = Null /\ StrLower(x.status) = S_failed) =>
                 /\ tool_result.allowed = TRUE
                 /\ tool_result.next_retry_after = IsoFormat(tool_call.now)

\* the order's only payment failed and has no attempt time; asked with a
\* cooldown, at a time after the start of the clock, the tool allows the retry
C28_Witness ==
    /\ tool_call.tool = "tool_can_retry_payment"
    /\ queries[1].ok
    /\ PaymentsOf(tool_call.args.order_id) = {P_undated}
    /\ tool_call.args.cooldown_minutes > 0
    /\ tool_call.now > 0
    /\ tool_result.allowed
    /\ tool_result.next_retry_after = IsoFormat(tool_call.now)

\* the time from the most recent Delivered event of the asked order to the
\* clock reading of the invocation, in ticks (negative: the event is later)
ElapsedSinceDelivery ==
    LET evs == DeliveredEvents(tool_call.args.order_id)
        latest == CHOOSE e \in evs : \A y \in evs : y.event_time <= e.event_time
    IN tool_call.now - latest.event_time

\* C29: tool_return_eligibility counts the elapsed time in whole days rounded
\* toward negative infinity: a Delivered event later than the current time
\* gives a negative days_since_delivery and eligible = true for every
\* policy_days >= 0, and an elapsed time of policy_days days plus a fraction
\* of a day is still eligible.
C29_WholeDaysRoundedDown ==
    (/\ tool_call.tool = "tool_return_eligibility"
     /\ queries[1].ok
     /\ DeliveredEvents(tool_call.args.order_id) # {}) =>
        LET days == tool_result.days_since_delivery
            W == tool_call.args.policy_days
        IN /\ days * TicksPerDay <= ElapsedSinceDelivery
           /\ ElapsedSinceDelivery < (days + 1) * TicksPerDay
           /\ ElapsedSinceDelivery < 0 => days < 0 /\ tool_result.eligible = TRUE
           /\ (/\ W * TicksPerDay <= ElapsedSinceDelivery
               /\ ElapsedSinceDelivery < (W + 1) * TicksPerDay) => tool_result.eligible = TRUE

\* the Delivered event lies a fraction of a day after the current time: the
\* tool reports -1 days and eligibility under a policy of 0 days
C29_Witness ==
    /\ tool_call.tool = "tool_return_eligibility"
    /\ queries[1].ok
    /\ DeliveredEvents(tool_call.args.order_id) # {}
    /\ ElapsedSinceDelivery < 0
    /\ 0 - ElapsedSinceDelivery < TicksPerDay
    /\ tool_call.args.policy_days = 0
    /\ tool_result.days_since_delivery = -1
    /\ tool_result.eligible

HasBothFields(doc) == doc.filename # Null /\ doc.chunk_index # Null

\* C30: in retrieve_support_docs a similarity hit whose metadata lacks a
\* filename or a chunk_index contributes no chunk to the result, not even its
\* own text; the result holds only the windows of the hits that have both
\* fields.
C30_HitWithoutMetadataContributesNothing ==
    rag_op = "retrieve_support_docs" =>
        /\ \A i \in 1..Len(hits) :
              ~HasBothFields(hits[i]) => hits[i].page_content \notin Range(rag_out)
        /\ Len(rag_out) = SumWindowSizes(SelectSeq(hits, HasBothFields))
        /\ \A a \in 1..Len(rag_out) :
              \E i \in 1..Len(hits), c \in Range(kb) :
                  /\ HasBothFields(hits[i]) /\ HasBothFields(c)
                  /\ c.filename = hits[i].filename
                  /\ c.chunk_index[1] - hits[i].chunk_index[1] \in {-1, 0, 1}
                  /\ rag_out[a] = c.page_content

\* the top-K hits hold a document without both fields among chunks of an
\* ingested source: the result has the chunks' windows and not the document
C30_Witness ==
    /\ rag_op = "retrieve_support_docs"
    /\ Len(hits) = TopK
    /\ \E i \in 1..Len(hits) :
          /\ ~HasBothFields(hits[i])
          /\ hits[i].page_content \notin Range(rag_out)
    /\ \E i \in 1..Len(hits) : HasBothFields(hits[i])
    /\ rag_out # <<>>

====
